---- MODULE Spec2Model ----
(***************************************************************************)
(* Detection engine of ai_tools: the rule-based AIPatternDetector and the  *)
(* EnhancedAIPatternDetector that rescores its Detections with the verdict *)
(* of an external intent classifier.                                       *)
(*                                                                         *)
(* Time (datetime, timedelta) is counted in ticks of 0.05 s.  Values the   *)
(* code rounds to two decimals (requests_per_second, z_score) and the      *)
(* float sub-scores are kept in hundredths.  A confidence is kept in       *)
(* hundredths too (0.7 is 70).                                             *)
(***************************************************************************)
EXTENDS Integers, Sequences, FiniteSets, TLC

\* ------------------------------------------------------------------------
\* Units and configuration (ai_tools/config.py, class Config)
\* ------------------------------------------------------------------------

TicksPerSecond == 20

SUPERHUMAN_SPEED_THRESHOLD == 10
ENUMERATION_SEQUENCE_LENGTH == 5
ANOMALY_Z_SCORE_THRESHOLD == 2
MAX_HISTORY_SIZE == 1000
SPEED_WINDOW_SECONDS == 10

\* Config(): the environment-sourced defaults.
DefaultConfig ==
    [ SUPERHUMAN_SPEED_THRESHOLD  |-> SUPERHUMAN_SPEED_THRESHOLD,
      ENUMERATION_SEQUENCE_LENGTH |-> ENUMERATION_SEQUENCE_LENGTH,
      ANOMALY_Z_SCORE_THRESHOLD   |-> ANOMALY_Z_SCORE_THRESHOLD,
      MAX_HISTORY_SIZE            |-> MAX_HISTORY_SIZE,
      SPEED_WINDOW_SECONDS        |-> SPEED_WINDOW_SECONDS,
      AI_ANALYSIS_ENABLED         |-> TRUE ]

\* Hard-coded numbers of ai_pattern_detector.py.
MinSpeedRequests == 10
EnumerationWindow == 20
SeriesCap == 100
MinAnomalySamples == 10

\* ------------------------------------------------------------------------
\* Arithmetic helpers
\* ------------------------------------------------------------------------

Min(a, b) == IF a <= b THEN a ELSE b
Max(a, b) == IF a >= b THEN a ELSE b
Abs(a) == IF a >= 0 THEN a ELSE -a

Last(s) == s[Len(s)]

\* s[-k:] of a Python list.
Tail_k(s, k) == IF Len(s) <= k THEN s ELSE SubSeq(s, Len(s) - k + 1, Len(s))

RECURSIVE SumSeq(_)
SumSeq(s) == IF s = <<>> THEN 0 ELSE s[1] + SumSeq(Tail(s))

RECURSIVE SumSquares(_)
SumSquares(s) == IF s = <<>> THEN 0 ELSE s[1] * s[1] + SumSquares(Tail(s))

\* round(num / den, 0) for num >= 0, den > 0, ties to even as Python rounds.
RoundDiv(num, den) ==
    LET q == num \div den
        r == num % den
    IN  IF 2 * r < den THEN q
        ELSE IF 2 * r > den THEN q + 1
        ELSE IF q % 2 = 0 THEN q ELSE q + 1

\* The odd part of n > 0; num / den is a dyadic rational, and so a float
\* without rounding at the sizes met here, when the odd part of den divides num.
RECURSIVE OddPart(_)
OddPart(n) == IF n % 2 = 0 THEN OddPart(n \div 2) ELSE n
Dyadic(num, den) == num % OddPart(den) = 0

\* floor(sqrt(n)) by bisection on [lo, hi].
RECURSIVE ISqrtIn(_, _, _)
ISqrtIn(n, lo, hi) ==
    IF lo >= hi THEN lo
    ELSE LET mid == (lo + hi + 1) \div 2
         IN  IF mid * mid <= n THEN ISqrtIn(n, mid, hi) ELSE ISqrtIn(n, lo, mid - 1)

ISqrt(n) == ISqrtIn(n, 0, 40000)

\* ------------------------------------------------------------------------
\* Data model (ai_tools/utils/models.py)
\* ------------------------------------------------------------------------

NORMAL == "normal"
SUSPICIOUS == "suspicious"
MALICIOUS == "malicious"
ThreatLevel == {NORMAL, SUSPICIOUS, MALICIOUS}

SUPERHUMAN_SPEED == "superhuman_speed"
SYSTEMATIC_ENUMERATION == "systematic_enumeration"
BEHAVIORAL_ANOMALY == "behavioral_anomaly"
PatternType == {SUPERHUMAN_SPEED, SYSTEMATIC_ENUMERATION, BEHAVIORAL_ANOMALY, NORMAL}

(* An endpoint string is kept as what endpoint.split('/') and the two      *)
(* regular expressions see of it: the '/'-separated segments of its path   *)
(* and, when it ends in "?name=value", that query.  A segment or a query   *)
(* value is a token: a literal text, or a run of digits with its int().    *)
Lit(text) == [text |-> text, digits |-> -1]
Num(n) == [text |-> "", digits |-> n]
IsDigits(tok) == tok.digits >= 0

Endpoint(segs, query) == [segs |-> segs, query |-> query]
NoQuery == <<>>
Query(name, value) == <<[name |-> name, value |-> value]>>

\* Request(timestamp, ip_address, endpoint, method, user_agent, parameters);
\* parameters is kept as the number of entries of the mapping (0 for None).
Request(timestamp, endpoint, parameters) ==
    [timestamp |-> timestamp, endpoint |-> endpoint, parameters |-> parameters]

\* dict.get(key, default)
Get(d, key, default) == IF key \in DOMAIN d THEN d[key] ELSE default

\* ------------------------------------------------------------------------
\* helpers.get_threat_level_from_score
\* ------------------------------------------------------------------------

get_threat_level_from_score(score) ==
    IF score < 30 THEN NORMAL
    ELSE IF score < 70 THEN SUSPICIOUS
    ELSE MALICIOUS

\* ------------------------------------------------------------------------
\* AIPatternDetector._detect_superhuman_speed
\* ------------------------------------------------------------------------

\* round(num / den, 2) of the float quotient in hundredths, num >= 0 and
\* den > 0 in ticks.  A quotient half way between two hundredths is rounded
\* by the float: to the even hundredth when the float is the quotient itself
\* (den / TicksPerSecond and the quotient are dyadic), else to the side on
\* which the float quotient fell (`up`): 3 / 40.0 lies below 0.075 and gives
\* 0.07, 9 / 40.0 lies above 0.225 and gives 0.23.
RoundedRate(num, den, up) ==
    LET q == num \div den
        r == num % den
    IN  IF 2 * r < den THEN q
        ELSE IF 2 * r > den THEN q + 1
        ELSE IF Dyadic(den, TicksPerSecond) /\ Dyadic(2 * q + 1, 200)
             THEN (IF q % 2 = 0 THEN q ELSE q + 1)
        ELSE IF up THEN q + 1
        ELSE q

\* round(count / time_span, 2) in hundredths; time_span in ticks, not 0.
RequestsPerSecond(count, time_span, up) ==
    IF time_span > 0
    THEN RoundedRate(100 * count * TicksPerSecond, time_span, up)
    ELSE -RoundedRate(100 * count * TicksPerSecond, -time_span, up)

\* The rate taken over the whole speed window instead of the span of the
\* requests in it.
RateAbove_window(count, time_span, threshold, over) ==
    count > threshold * SPEED_WINDOW_SECONDS

\* The largest power of two that is at most n, n >= 1.
RECURSIVE PowerOfTwoBelow(_)
PowerOfTwoBelow(n) == IF n < 2 THEN 1 ELSE 2 * PowerOfTwoBelow(n \div 2)

\* The float count / time_span can lie above the whole threshold that the
\* rate equals in exact arithmetic: time_span / TicksPerSecond is no exact
\* float, and its float misses it by at most 2/5 of a unit in the last
\* place (the ticks are twentieths), which moves the quotient off the
\* threshold only when the threshold is more than 5/4 of the power of two
\* below it: 21 / 1.4 > 15, while 14 / 1.4 = 10.
RateRoundsEitherWay(count, time_span, threshold) ==
    /\ time_span > 0
    /\ threshold > 0
    /\ count * TicksPerSecond = threshold * time_span
    /\ ~Dyadic(time_span, TicksPerSecond)
    /\ 4 * threshold > 5 * PowerOfTwoBelow(threshold)

\* count / time_span > threshold, time_span in ticks, not 0; `over` is the
\* side of the float quotient where RateRoundsEitherWay.
RateAbove(count, time_span, threshold, over) ==
    \/ IF time_span > 0
       THEN count * TicksPerSecond > threshold * time_span
       ELSE count * TicksPerSecond < threshold * time_span
    \/ over /\ RateRoundsEitherWay(count, time_span, threshold)

\* Only the two requests a rate needs are asked for.
TooFewRequests_pair(history) == Len(history) < 2

\* if len(self.request_history) < 10: no rate is computed
TooFewRequests(history) == Len(history) < MinSpeedRequests

\* The floor taken as one second.
TimeSpan_second(span) == IF span = 0 THEN TicksPerSecond ELSE span

\* time_span, 0.1 s when it is 0 to avoid the division by zero
TimeSpan(span) == IF span = 0 THEN TicksPerSecond \div 10 ELSE span

\* self.config.SUPERHUMAN_SPEED_THRESHOLD
SpeedThreshold(cfg) == cfg.SUPERHUMAN_SPEED_THRESHOLD

_detect_superhuman_speed(history, now, cfg, up, over) ==
    IF TooFewRequests(history)
    THEN [detected |-> FALSE, requests_per_second |-> 0]
    ELSE
      LET window_start == now - cfg.SPEED_WINDOW_SECONDS * TicksPerSecond
          recent_requests == SelectSeq(history, LAMBDA r : r.timestamp >= window_start)
      IN  IF Len(recent_requests) < 2
          THEN [detected |-> FALSE, requests_per_second |-> 0]
          ELSE
            LET span == Last(recent_requests).timestamp - recent_requests[1].timestamp
                time_span == TimeSpan(span)
                count == Len(recent_requests)
            IN  [ detected |-> RateAbove(count, time_span, SpeedThreshold(cfg), over),
                  requests_per_second |-> RequestsPerSecond(count, time_span, up),
                  threshold |-> SpeedThreshold(cfg) ]

\* ------------------------------------------------------------------------
\* AIPatternDetector._detect_systematic_enumeration and its matchers
\* ------------------------------------------------------------------------

NoPattern == [matcher |-> "None", key |-> <<>>]

SetMax(S) == CHOOSE x \in S : \A y \in S : y <= x
SetMin(S) == CHOOSE x \in S : \A y \in S : x <= y

\* A run must be longer than ENUMERATION_SEQUENCE_LENGTH instead of at least
\* that long.
_is_sequential_longer(numbers, tolerance, cfg) ==
    IF Len(numbers) < 2 THEN FALSE
    ELSE
      LET sorted_numbers == {numbers[i] : i \in 1..Len(numbers)}
      IN  IF Cardinality(sorted_numbers) <= cfg.ENUMERATION_SEQUENCE_LENGTH THEN FALSE
          ELSE
            LET diffs == { SetMin({y \in sorted_numbers : y > x}) - x :
                             x \in sorted_numbers \ {SetMax(sorted_numbers)} }
            IN  Cardinality(diffs) <= tolerance + 1

\* All differences must be the same: tolerance instead of tolerance + 1
\* distinct differences.
_is_sequential_single_step(numbers, tolerance, cfg) ==
    IF Len(numbers) < 2 THEN FALSE
    ELSE
      LET sorted_numbers == {numbers[i] : i \in 1..Len(numbers)}
      IN  IF Cardinality(sorted_numbers) < cfg.ENUMERATION_SEQUENCE_LENGTH THEN FALSE
          ELSE
            LET diffs == { SetMin({y \in sorted_numbers : y > x}) - x :
                             x \in sorted_numbers \ {SetMax(sorted_numbers)} }
            IN  Cardinality(diffs) <= tolerance

_is_sequential(numbers, tolerance, cfg) ==
    IF Len(numbers) < 2 THEN FALSE
    ELSE
      LET sorted_numbers == {numbers[i] : i \in 1..Len(numbers)}
      IN  IF Cardinality(sorted_numbers) < cfg.ENUMERATION_SEQUENCE_LENGTH THEN FALSE
          ELSE
            LET diffs == { SetMin({y \in sorted_numbers : y > x}) - x :
                             x \in sorted_numbers \ {SetMax(sorted_numbers)} }
            IN  Cardinality(diffs) <= tolerance + 1

\* re.match(r'(.+?)/(\d+)$', endpoint): the endpoint ends in "/<digits>" after
\* a base path that is not empty.
PathMatches(endpoint) ==
    /\ endpoint.query = NoQuery
    /\ Len(endpoint.segs) >= 2
    /\ IsDigits(Last(endpoint.segs))
    /\ ~(Len(endpoint.segs) = 2 /\ endpoint.segs[1] = Lit(""))

BasePath(endpoint) == SubSeq(endpoint.segs, 1, Len(endpoint.segs) - 1)

\* re.search(r'\?(\w+)=(\d+)', endpoint)
ParamMatches(endpoint) ==
    /\ endpoint.query # NoQuery
    /\ IsDigits(endpoint.query[1].value)

_find_sequential_pattern(endpoints, cfg) ==
    LET idx == {i \in 1..Len(endpoints) : PathMatches(endpoints[i])}
        \* the keys of `sequences`, each at its first appearance
        firsts == {i \in idx : \A j \in idx : j < i => BasePath(endpoints[j]) # BasePath(endpoints[i])}
        positions(i) == SelectSeq(endpoints,
                            LAMBDA e : PathMatches(e) /\ BasePath(e) = BasePath(endpoints[i]))
        numbers(i) == [k \in 1..Len(positions(i)) |-> Last(positions(i)[k].segs).digits]
        qualifying == {i \in firsts :
                          /\ Len(positions(i)) >= cfg.ENUMERATION_SEQUENCE_LENGTH
                          /\ _is_sequential(numbers(i), 1, cfg)}
    IN  IF qualifying = {} THEN [detected |-> FALSE]
        ELSE LET i == SetMin(qualifying)
             IN  [ detected |-> TRUE,
                   pattern |-> [matcher |-> "path", key |-> BasePath(endpoints[i])],
                   length |-> Len(positions(i)) ]

_find_parameter_enumeration(endpoints, cfg) ==
    LET idx == {i \in 1..Len(endpoints) : ParamMatches(endpoints[i])}
        name(i) == endpoints[i].query[1].name
        firsts == {i \in idx : \A j \in idx : j < i => name(j) # name(i)}
        matching(i) == SelectSeq(endpoints,
                           LAMBDA e : ParamMatches(e) /\ e.query[1].name = name(i))
        values(i) == [k \in 1..Len(matching(i)) |-> matching(i)[k].query[1].value.digits]
        qualifying == {i \in firsts :
                          /\ Len(values(i)) >= cfg.ENUMERATION_SEQUENCE_LENGTH
                          /\ _is_sequential(values(i), 1, cfg)}
    IN  IF qualifying = {} THEN [detected |-> FALSE]
        ELSE LET i == SetMin(qualifying)
             IN  [ detected |-> TRUE,
                   pattern |-> [matcher |-> "param", key |-> <<Lit(name(i))>>],
                   length |-> Len(values(i)) ]

\* The whole history instead of its last 20 entries.
RecentRequests_all(history) == history

\* list(self.request_history)[-20:]
RecentRequests(history) == Tail_k(history, EnumerationWindow)

\* The parameter matcher's result whenever it detected.
ChosenPattern_param_first(sequential_pattern, param_pattern) ==
    IF param_pattern.detected THEN param_pattern ELSE sequential_pattern

\* pattern = sequential_pattern if sequential_pattern["detected"] else param_pattern
ChosenPattern(sequential_pattern, param_pattern) ==
    IF sequential_pattern.detected THEN sequential_pattern ELSE param_pattern

_detect_systematic_enumeration(history, cfg) ==
    IF Len(history) < cfg.ENUMERATION_SEQUENCE_LENGTH
    THEN [detected |-> FALSE, pattern |-> NoPattern]
    ELSE
      LET recent == RecentRequests(history)
          recent_endpoints == [i \in 1..Len(recent) |-> recent[i].request.endpoint]
          sequential_pattern == _find_sequential_pattern(recent_endpoints, cfg)
          param_pattern == _find_parameter_enumeration(recent_endpoints, cfg)
          detected == sequential_pattern.detected \/ param_pattern.detected
          pattern == ChosenPattern(sequential_pattern, param_pattern)
      IN  [ detected |-> detected,
            pattern |-> IF detected THEN pattern.pattern ELSE NoPattern,
            sequence_length |-> IF detected THEN Get(pattern, "length", 0) ELSE 0 ]

\* ------------------------------------------------------------------------
\* AIPatternDetector._detect_behavioral_anomaly
\* ------------------------------------------------------------------------

\* len(request.endpoint.split('/'))
EndpointDepth(endpoint) == Len(endpoint.segs)

\* The interval from the previous request, 1.0 s when there is none; the
\* history already holds the request.
IntervalOf(request, history) ==
    IF Len(history) > 1
    THEN request.timestamp - history[Len(history) - 1].timestamp
    ELSE TicksPerSecond

\* The three series after the request's samples are appended and each is
\* cut to its last SeriesCap samples.
UpdatedDepths(request, depths) == Tail_k(Append(depths, EndpointDepth(request.endpoint)), SeriesCap)
UpdatedCounts(request, counts) == Tail_k(Append(counts, request.parameters), SeriesCap)
UpdatedIntervals(request, history, intervals) ==
    Tail_k(IF Len(history) > 1 THEN Append(intervals, IntervalOf(request, history)) ELSE intervals,
           SeriesCap)


\* The three features of _detect_behavioral_anomaly.
Features == {"endpoint_depth", "parameter_count", "interval"}

\* What the rounding of the float arithmetic decides in one call, each
\* float on its own:
\*   drift    np.mean of equal samples that are no exact floats misses their
\*            common value;
\*   up       for each feature, the float z-score lies above the value half
\*            way between two hundredths that it equals in exact arithmetic;
\*   over     for each feature, the float z-score lies above the threshold
\*            that it equals in exact arithmetic;
\*   rate_up  the float rate lies above the value half way between two
\*            hundredths that it equals in exact arithmetic;
\*   rate_over  the float rate lies above the threshold that it equals in
\*            exact arithmetic;
\*   short    the float sum of the sub-scores lies below the whole number
\*            that it equals in exact arithmetic.
Rounding(drift, up, over, rate_up, rate_over, short) ==
    [drift |-> drift, up |-> up, over |-> over, rate_up |-> rate_up,
     rate_over |-> rate_over, short |-> short]
Roundings ==
    { Rounding(drift, up, over, rate_up, rate_over, short) :
         drift \in BOOLEAN, up \in [Features -> BOOLEAN], over \in [Features -> BOOLEAN],
         rate_up \in BOOLEAN, rate_over \in BOOLEAN, short \in BOOLEAN }

\* np.std(series) > 0 for samples that are all equal: in exact arithmetic
\* the deviation is 0; np.mean of three or more equal samples that are no
\* exact floats (an interval of `value` ticks of 0.05 s, value / unit not
\* dyadic) can differ from them in the last bit, and then np.std is that
\* difference, positive, and is kept.
Drifted(series, unit, drift) ==
    /\ drift
    /\ Len(series) >= 3
    /\ Len(series) * SumSquares(series) - SumSeq(series) * SumSeq(series) = 0
    /\ ~Dyadic(series[1], unit)

(* abs((value - np.mean(series)) / std), std being np.std(series) when that *)
(* is positive and else 1 (`unit` ticks for an interval).  With n samples of*)
(* sum S and sum of squares Q, mean = S/n and np.std = sqrt(n*Q - S*S)/n, so *)
(* z = dev / sqrt(var) with dev = |n*value - S| and var = n*Q - S*S, or     *)
(* (n*unit)^2 when np.std is 0.  When np.mean of equal samples drifted, the  *)
(* deviation of each sample and np.std are the same tiny number: dev and var *)
(* are 1.  An empty series has mean 1.0 and std 1.                           *)
ZDev(value, series, unit, drift) ==
    IF series = <<>> THEN Abs(value - unit)
    ELSE IF Drifted(series, unit, drift) THEN 1
    ELSE Abs(Len(series) * value - SumSeq(series))

ZVar(series, unit, drift) ==
    IF series = <<>> THEN unit * unit
    ELSE IF Drifted(series, unit, drift) THEN 1
    ELSE LET n == Len(series)
             d == n * SumSquares(series) - SumSeq(series) * SumSeq(series)
         IN  IF d > 0 THEN d ELSE (n * unit) * (n * unit)

\* The floats are exact all the way to the z-score: the samples, their
\* mean S / (n * unit) and np.std = sqrt(var) / (n * unit) are dyadic.
ExactFloats(series, unit) ==
    LET n == Len(series)
        d == n * SumSquares(series) - SumSeq(series) * SumSeq(series)
    IN  /\ series # <<>>
        /\ \A i \in DOMAIN series : Dyadic(series[i], unit)
        /\ Dyadic(SumSeq(series), n * unit)
        /\ ISqrt(d) * ISqrt(d) = d
        /\ Dyadic(ISqrt(d), n * unit)

\* dev / sqrt(var) in two-hundredths, rounded down (m), and whether the
\* quotient is m two-hundredths exactly with m odd: half way between two
\* hundredths.
ZHalves(dev, var) ==
    LET q0 == (dev * dev) \div var
        r0 == (dev * dev) % var
        q1 == (200 * r0) \div var
        r1 == (200 * r0) % var
        q2 == (200 * r1) \div var
        r2 == (200 * r1) % var
        f  == 40000 * q0 + 200 * q1 + q2
        m  == ISqrt(f)
    IN  [m |-> m, half_way |-> r2 = 0 /\ m * m = f /\ m % 2 = 1]

\* A quotient half way between two hundredths that the float misses: mean
\* and deviation are rounded, or the quotient m / 200 is no exact float.
ZRoundsEitherWay(dev, var, exact) ==
    LET z == ZHalves(dev, var)
    IN  z.half_way /\ ~(Dyadic(z.m, 200) /\ exact)

\* round(dev / sqrt(var), 2) in hundredths: the k with
\* (2k-1)^2 <= 40000 * dev^2 / var < (2k+1)^2, but for a quotient exactly
\* half way between two hundredths.  round() then goes by the float: to the
\* even hundredth when the float is the quotient itself (`exact`, and the
\* quotient m / 200 dyadic), else to the side on which the float fell
\* (`above`).
RoundedZ(dev, var, exact, above) ==
    LET z == ZHalves(dev, var)
        m == z.m
    IN  IF ~z.half_way THEN (m + 1) \div 2
        ELSE IF ~ZRoundsEitherWay(dev, var, exact)
             THEN (IF ((m - 1) \div 2) % 2 = 0 THEN (m - 1) \div 2 ELSE (m + 1) \div 2)
        ELSE IF above THEN (m + 1) \div 2
        ELSE (m - 1) \div 2

\* dev / sqrt(var) > threshold.  When the quotient equals the threshold in
\* exact arithmetic, the float quotient is the threshold when mean and
\* deviation are computed without rounding (`exact`); else the rounding
\* error of np.mean and np.std decides the float comparison: `over` is the
\* side it falls on.
ZAbove(dev, var, threshold, exact, over) ==
    \/ dev * dev > threshold * threshold * var
    \/ dev * dev = threshold * threshold * var /\ over /\ ~exact

\* Half the samples are taken for enough.
TooFewSamples_half(series) == Len(series) < MinAnomalySamples \div 2

\* if len(self.endpoint_depths) < 10: not enough data for z-scores
TooFewSamples(series) == Len(series) < MinAnomalySamples

_detect_behavioral_anomaly(request, history, depths, counts, intervals, cfg, tie) ==
    LET endpoint_depths == UpdatedDepths(request, depths)
        parameter_counts == UpdatedCounts(request, counts)
        request_intervals == UpdatedIntervals(request, history, intervals)
    IN  IF TooFewSamples(endpoint_depths)
        THEN [detected |-> FALSE, z_score |-> 0]
        ELSE
          LET depth_dev == ZDev(EndpointDepth(request.endpoint), endpoint_depths, 1, tie.drift)
              depth_var == ZVar(endpoint_depths, 1, tie.drift)
              param_dev == ZDev(request.parameters, parameter_counts, 1, tie.drift)
              param_var == ZVar(parameter_counts, 1, tie.drift)
              interval_dev == ZDev(IntervalOf(request, history), request_intervals,
                                   TicksPerSecond, tie.drift)
              interval_var == ZVar(request_intervals, TicksPerSecond, tie.drift)
              depth_exact == ExactFloats(endpoint_depths, 1)
              param_exact == ExactFloats(parameter_counts, 1)
              interval_exact == ExactFloats(request_intervals, TicksPerSecond)
              depth_z == RoundedZ(depth_dev, depth_var, depth_exact,
                                  tie.up["endpoint_depth"])
              param_z == RoundedZ(param_dev, param_var, param_exact,
                                  tie.up["parameter_count"])
              interval_z == RoundedZ(interval_dev, interval_var, interval_exact,
                                     tie.up["interval"])
              threshold == cfg.ANOMALY_Z_SCORE_THRESHOLD
          IN  [ detected |-> \/ ZAbove(depth_dev, depth_var, threshold, depth_exact,
                                        tie.over["endpoint_depth"])
                             \/ ZAbove(param_dev, param_var, threshold, param_exact,
                                        tie.over["parameter_count"])
                             \/ ZAbove(interval_dev, interval_var, threshold, interval_exact,
                                        tie.over["interval"]),
                z_score |-> Max(depth_z, Max(param_z, interval_z)),
                threshold |-> threshold,
                features |-> [ endpoint_depth_z |-> depth_z,
                               parameter_count_z |-> param_z,
                               interval_z |-> interval_z ] ]

\* ------------------------------------------------------------------------
\* AIPatternDetector._calculate_threat_score, _determine_pattern_type
\* ------------------------------------------------------------------------

\* A sub-score as the exact fraction num / den of a point, den > 0.
Points(num, den) == [num |-> num, den |-> den]
NoPoints == Points(0, 1)
Whole(points) == points.num % points.den = 0
Less(a, b) == a.num * b.den < b.num * a.den

\* min(cap, (value / threshold) * weight) for a value in hundredths; the cap
\* itself, an integer, when the product is above it.
Weighted(value, threshold, weight, cap) ==
    IF value * weight > cap * 100 * threshold THEN Points(cap, 1)
    ELSE Points(value * weight, 100 * threshold)

\* min(40, (rps / threshold) * 30)
SpeedScore(speed_detection) ==
    IF speed_detection.detected
    THEN Weighted(Get(speed_detection, "requests_per_second", 0),
                  Get(speed_detection, "threshold", 10), 30, 40)
    ELSE NoPoints

\* seq_length * 5 without the cap of 35
EnumScore_uncapped(enum_detection) ==
    IF enum_detection.detected
    THEN Points(Get(enum_detection, "sequence_length", 0) * 5, 1)
    ELSE NoPoints

\* min(35, seq_length * 5)
EnumScore(enum_detection) ==
    IF enum_detection.detected
    THEN Points(Min(35, Get(enum_detection, "sequence_length", 0) * 5), 1)
    ELSE NoPoints

\* (z_score / threshold) * 20 without the cap of 25
AnomalyScore_uncapped(anomaly_detection) ==
    IF anomaly_detection.detected
    THEN Points(Get(anomaly_detection, "z_score", 0) * 20,
                100 * Get(anomaly_detection, "threshold", 2))
    ELSE NoPoints

\* min(25, (z_score / threshold) * 20)
AnomalyScore(anomaly_detection) ==
    IF anomaly_detection.detected
    THEN Weighted(Get(anomaly_detection, "z_score", 0),
                  Get(anomaly_detection, "threshold", 2), 20, 25)
    ELSE NoPoints

\* score after the three additions, in exact arithmetic
Total(speed, enum, anomaly) ==
    Points(speed.num * enum.den * anomaly.den + enum.num * speed.den * anomaly.den
              + anomaly.num * speed.den * enum.den,
           speed.den * enum.den * anomaly.den)

\* The float of (value / threshold) * weight can lie just below the whole
\* number it is in exact arithmetic: (3.3 / 3.0) * 20 is 21.999999999999996.
\* It is that number when the quotient is exact (the threshold is a power
\* of two) and when the value is a whole number.
FloatBelowWhole(points, value, threshold) ==
    /\ points.den # 1
    /\ Whole(points)
    /\ value % 100 # 0
    /\ OddPart(threshold) # 1

\* The float sum can lie below the whole number that the sub-scores add up
\* to in exact arithmetic: a sub-score does (FloatBelowWhole), or the speed
\* and the anomaly sub-score both have a fraction, as have
\* 32.099999999999994 + 22.9 = 54.99999999999999.
FloatSumBelowWhole(speed_detection, enum_detection, anomaly_detection) ==
    LET speed == SpeedScore(speed_detection)
        anomaly == AnomalyScore(anomaly_detection)
    IN  /\ Whole(Total(speed, EnumScore(enum_detection), anomaly))
        /\ \/ FloatBelowWhole(speed, Get(speed_detection, "requests_per_second", 0),
                              Get(speed_detection, "threshold", 10))
           \/ FloatBelowWhole(anomaly, Get(anomaly_detection, "z_score", 0),
                              Get(anomaly_detection, "threshold", 2))
           \/ ~Whole(speed) /\ ~Whole(anomaly)

\* The sum rounded to the nearest integer instead of truncated.
_calculate_threat_score_rounded(speed_detection, enum_detection, anomaly_detection, short) ==
    LET score == Total(SpeedScore(speed_detection), EnumScore(enum_detection),
                       AnomalyScore(anomaly_detection))
    IN  Min(100, RoundDiv(score.num, score.den))

\* min(100, int(score)): int() drops the fraction of the float sum, and a
\* float sum just below a whole number (`short`) is one less than the exact
\* sum.
_calculate_threat_score(speed_detection, enum_detection, anomaly_detection, short) ==
    LET score == Total(SpeedScore(speed_detection), EnumScore(enum_detection),
                       AnomalyScore(anomaly_detection))
        below == short /\ FloatSumBelowWhole(speed_detection, enum_detection,
                                             anomaly_detection)
    IN  Min(100, IF below THEN score.num \div score.den - 1 ELSE score.num \div score.den)

\* The label of the detector with the largest sub-score.
_determine_pattern_type_by_score(speed_detection, enum_detection, anomaly_detection) ==
    LET speed == SpeedScore(speed_detection)
        enum == EnumScore(enum_detection)
        anomaly == AnomalyScore(anomaly_detection)
    IN  IF speed.num = 0 /\ enum.num = 0 /\ anomaly.num = 0 THEN NORMAL
        ELSE IF ~Less(speed, enum) /\ ~Less(speed, anomaly) THEN SUPERHUMAN_SPEED
        ELSE IF ~Less(enum, anomaly) THEN SYSTEMATIC_ENUMERATION
        ELSE BEHAVIORAL_ANOMALY

_determine_pattern_type(speed_detection, enum_detection, anomaly_detection) ==
    IF speed_detection.detected THEN SUPERHUMAN_SPEED
    ELSE IF enum_detection.detected THEN SYSTEMATIC_ENUMERATION
    ELSE IF anomaly_detection.detected THEN BEHAVIORAL_ANOMALY
    ELSE NORMAL

\* ------------------------------------------------------------------------
\* State
\* ------------------------------------------------------------------------

VARIABLES
    config,                  \* self.config
    enable_ai,               \* EnhancedAIPatternDetector.enable_ai (ai_analyzer exists iff TRUE)
    collaborator,            \* the intent classifier behind ai_analyzer, as it answers
    request_history,         \* deque(maxlen = MAX_HISTORY_SIZE) of {request, timestamp}
    detections,              \* list of Detection
    endpoint_depths,         \* rolling series
    parameter_counts,        \* rolling series
    request_intervals,       \* rolling series
    ai_enhanced_detections,  \* list of {detection, ai_analysis, timestamp}
    now,                     \* datetime.now()
    traffic,                 \* the request stream the caller feeds
    sent,                    \* requests of the stream fed since it (re)started
    resets,                  \* clear_history calls so far
    last                     \* the last call: its name, the rule-based Detection
                             \* before rescoring, whether ai_analyzer was called

vars == << config, enable_ai, collaborator, request_history, detections,
           endpoint_depths, parameter_counts, request_intervals,
           ai_enhanced_detections, now, traffic, sent, resets, last >>

\* ------------------------------------------------------------------------
\* The request streams fed to the engine
\* ------------------------------------------------------------------------

MaxRequests == 12
LongRun == 20
MaxResets == 1

\* A kind of request: the gap to the previous request in ticks, the shape of
\* the endpoint and the number of parameters.
Kind(gap, shape, parameters) == [gap |-> gap, shape |-> shape, parameters |-> parameters]

FastPath  == Kind(1, "path", 0)      \* /api/user/<i>, 0.05 s apart
PacedPath == Kind(2, "path", 0)      \* /api/user/<i>, 0.1 s apart
SlowPath  == Kind(TicksPerSecond, "path", 0)   \* /api/user/<i>, 1 s apart
SlowParam == Kind(TicksPerSecond, "param", 1)  \* /api/data?id=<i>, 1 s apart
FastFixed == Kind(1, "fixed", 0)     \* /api/users, 0.05 s apart
SameFixed == Kind(0, "fixed", 0)     \* /api/users, same timestamp
SlowFixed == Kind(TicksPerSecond, "fixed", 0)  \* /api/users, 1 s apart
SlowDeep  == Kind(TicksPerSecond, "deep", 6)   \* a 10-segment path with 6 parameters
LateFixed == Kind(11 * TicksPerSecond, "fixed", 0)  \* /api/users, 11 s apart

BriskPath == Kind(3, "path", 0)     \* /api/user/<i>, 0.15 s apart: above 5 and below 10 requests a second
EarlierFixed == Kind(-1, "fixed", 0) \* /api/users, each stamped 0.05 s before the one submitted before it

Kinds == {FastPath, PacedPath, SlowPath, SlowParam, FastFixed, SameFixed,
          SlowFixed, SlowDeep, LateFixed}

\* The endpoint of the i-th request of a stream.
EndpointOf(shape, i) ==
    CASE shape = "path"  -> Endpoint(<<Lit(""), Lit("api"), Lit("user"), Num(i)>>, NoQuery)
      [] shape = "param" -> Endpoint(<<Lit(""), Lit("api"), Lit("data")>>, Query("id", Num(i)))
      [] shape = "fixed" -> Endpoint(<<Lit(""), Lit("api"), Lit("users")>>, NoQuery)
      [] shape = "deep"  -> Endpoint(<<Lit(""), Lit("a"), Lit("b"), Lit("c"), Lit("d"), Lit("e"),
                                       Lit("f"), Lit("g"), Lit("h"), Lit("i")>>, NoQuery)
      [] shape = "item"  -> Endpoint(<<Lit(""), Lit("api"), Lit("item"), Num(i)>>, NoQuery)
      [] shape = "page"  -> Endpoint(<<Lit(""), Lit("api"), Lit("data")>>, Query("page", Num(i)))
      [] shape = "pairs" -> Endpoint(<<Lit(""), Lit("api"), Lit("user"), Num((i + 1) \div 2)>>, NoQuery)
      [] shape = "steps" -> Endpoint(<<Lit(""), Lit("api"), Lit("user"), Num(i + i \div 2)>>, NoQuery)
      [] shape = "zigzag" ->
            Endpoint(<<Lit(""), Lit("api"), Lit("user"),
                       Num(IF i % 2 = 1 THEN i + 1 ELSE i - 1)>>, NoQuery)
      [] shape = "jumps" ->
            Endpoint(<<Lit(""), Lit("api"), Lit("user"),
                       Num(i + (i \div 3) * (i \div 3))>>, NoQuery)

\* A stream: `first` requests of kind a, then requests of kind b, `limit`
\* in all; live when each request is analysed at its own timestamp, else the
\* whole stream is analysed at the time it starts (timestamps run ahead of
\* the clock, as in a scripted feed).
Stream(first, a, b, live, limit) ==
    [first |-> first, a |-> a, b |-> b, live |-> live, limit |-> limit]

Streams ==
    { Stream(0, b, b, live, MaxRequests) : b \in Kinds, live \in BOOLEAN }
    \cup { Stream(first, p[1], p[2], FALSE, MaxRequests) :
              first \in 1..(MaxRequests - 1),
              p \in {q \in Kinds \X Kinds : q[1] # q[2]} }
    \cup { Stream(0, SlowPath, SlowPath, live, LongRun) : live \in BOOLEAN }

KindAt(i) == IF i <= traffic.first THEN traffic.a ELSE traffic.b

\* The next request of the stream.
NextRequest ==
    LET i == sent + 1
        kind == KindAt(i)
        timestamp == IF sent = 0 \/ request_history = <<>> THEN now
                     ELSE Last(request_history).timestamp + kind.gap
    IN  Request(timestamp, EndpointOf(kind.shape, i), kind.parameters)

\* datetime.now() while the request is analysed.
ClockAt(request) == IF traffic.live THEN Max(now, request.timestamp) ELSE now

\* ------------------------------------------------------------------------
\* AIPatternDetector.analyze_request, clear_history
\* ------------------------------------------------------------------------

\* The history as a list that only grows.
HistoryAfter_unbounded(request) ==
    Append(request_history, [request |-> request, timestamp |-> request.timestamp])

\* self.request_history.append(...) on a deque(maxlen = MAX_HISTORY_SIZE)
HistoryAfter(request) ==
    Tail_k(Append(request_history, [request |-> request, timestamp |-> request.timestamp]),
           config.MAX_HISTORY_SIZE)

\* The Detection that AIPatternDetector.analyze_request builds and returns
\* for the request when datetime.now() is `clock`; `tie` is the Rounding of the call.
analyze_request(request, clock, tie) ==
    LET history == HistoryAfter(request)
        speed_detection == _detect_superhuman_speed(history, clock, config, tie.rate_up, tie.rate_over)
        enum_detection == _detect_systematic_enumeration(history, config)
        anomaly_detection == _detect_behavioral_anomaly(request, history, endpoint_depths,
                                 parameter_counts, request_intervals, config, tie)
        threat_score == _calculate_threat_score(speed_detection, enum_detection,
                                                anomaly_detection, tie.short)
    IN  [ timestamp |-> clock,
          request |-> request,
          threat_score |-> threat_score,
          threat_level |-> get_threat_level_from_score(threat_score),
          pattern_type |-> _determine_pattern_type(speed_detection, enum_detection,
                                                   anomaly_detection),
          details |-> [ speed_detection |-> speed_detection,
                        enumeration_detection |-> enum_detection,
                        anomaly_detection |-> anomaly_detection ] ]

\* The choices of a Rounding that is free when `live` and FALSE when not.
Free(live) == IF live THEN BOOLEAN ELSE {FALSE}

NoFeature == [feature \in Features |-> FALSE]
AllFeatures == [feature \in Features |-> TRUE]
Only(feature) == [f \in Features |-> f = feature]

\* The Roundings that analyze_request can meet for the request: a choice is
\* free where the floats of the call decide something that exact arithmetic
\* leaves open, and FALSE elsewhere.
RoundingsAt(request, clock) ==
    LET history == HistoryAfter(request)
        series == [ endpoint_depth |-> UpdatedDepths(request, endpoint_depths),
                    parameter_count |-> UpdatedCounts(request, parameter_counts),
                    interval |-> UpdatedIntervals(request, history, request_intervals) ]
        value == [ endpoint_depth |-> EndpointDepth(request.endpoint),
                   parameter_count |-> request.parameters,
                   interval |-> IntervalOf(request, history) ]
        unit == [ endpoint_depth |-> 1, parameter_count |-> 1, interval |-> TicksPerSecond ]
        threshold == config.ANOMALY_Z_SCORE_THRESHOLD
        scored == ~TooFewSamples(series.endpoint_depth)
        dev == [f \in Features |-> ZDev(value[f], series[f], unit[f], FALSE)]
        var == [f \in Features |-> ZVar(series[f], unit[f], FALSE)]
        exact(f) == ExactFloats(series[f], unit[f])
        drifts == Free(scored /\ Drifted(series.interval, TicksPerSecond, TRUE))
        rounds == [f \in Features |->
                     scored /\ ZRoundsEitherWay(dev[f], var[f], exact(f))]
        compares == [f \in Features |->
                       scored /\ \/ ZAbove(dev[f], var[f], threshold, exact(f), TRUE)
                                       # ZAbove(dev[f], var[f], threshold, exact(f), FALSE)
                                 \/ f = "interval" /\ TRUE \in drifts /\ threshold = 1]
        ups == { up \in [Features -> BOOLEAN] : \A f \in Features : up[f] => rounds[f] }
        overs == { over \in [Features -> BOOLEAN] : \A f \in Features : over[f] => compares[f] }
        speed(rate_up, rate_over) ==
            _detect_superhuman_speed(history, clock, config, rate_up, rate_over)
        rates == Free(speed(TRUE, FALSE) # speed(FALSE, FALSE))
        rate_overs == Free(speed(FALSE, TRUE) # speed(FALSE, FALSE))
        anomaly(drift, up, over) ==
            _detect_behavioral_anomaly(request, history, endpoint_depths, parameter_counts,
                                       request_intervals, config,
                                       Rounding(drift, up, over, FALSE, FALSE, FALSE))
        shorts == Free(\E rate_up \in rates, rate_over \in rate_overs :
                          /\ speed(rate_up, rate_over).detected \/ OddPart(threshold) # 1
                          /\ Get(speed(rate_up, rate_over), "threshold", 10) # 0
                          /\ \E drift \in drifts, up \in ups, over \in overs :
                                FloatSumBelowWhole(speed(rate_up, rate_over), [detected |-> FALSE],
                                                   anomaly(drift, up, over)))
    IN  { Rounding(drift, up, over, rate_up, rate_over, short) :
             drift \in drifts, up \in ups, over \in overs, rate_up \in rates,
             rate_over \in rate_overs, short \in shorts }

\* What analyze_request leaves in the engine besides the Detection.
EngineAfter(request) ==
    /\ request_history' = HistoryAfter(request)
    /\ endpoint_depths' = UpdatedDepths(request, endpoint_depths)
    /\ parameter_counts' = UpdatedCounts(request, parameter_counts)
    /\ request_intervals' = UpdatedIntervals(request, HistoryAfter(request), request_intervals)

Call(op, rule, consulted, failed) ==
    [op |-> op, rule |-> rule, consulted |-> consulted, failed |-> failed]

\* A call that ended with an exception reaching the caller.
Raised(op, error) == [op |-> op, error |-> error]

\* rps / threshold in _calculate_threat_score divides by zero when the speed
\* detector fired under a SUPERHUMAN_SPEED_THRESHOLD of 0.
ScoreRaises(request, clock) ==
    LET speed_detection == _detect_superhuman_speed(HistoryAfter(request), clock, config,
                                                    FALSE, FALSE)
    IN  speed_detection.detected /\ Get(speed_detection, "threshold", 10) = 0

\* The detection list kept to the capacity of the request history.
DetectionsAfter_bounded(detection) ==
    Tail_k(Append(detections, detection), config.MAX_HISTORY_SIZE)

\* self.detections.append(detection)
DetectionsAfter(detection) == Append(detections, detection)

\* AIPatternDetector.analyze_request on the next request of the stream.  When
\* the score computation raises, the request is already in the history and
\* the feature series, and no Detection is appended or returned.
AnalyzeRequest ==
    /\ sent < traffic.limit
    /\ \E tie \in RoundingsAt(NextRequest, ClockAt(NextRequest)) :
       LET request == NextRequest
           clock == ClockAt(request)
           detection == analyze_request(request, clock, tie)
       IN  /\ now' = clock
           /\ EngineAfter(request)
           /\ IF ScoreRaises(request, clock)
              THEN /\ detections' = detections
                   /\ last' = Raised("analyze_request", "ZeroDivisionError")
              ELSE /\ detections' = DetectionsAfter(detection)
                   /\ last' = Call("analyze_request", detection, FALSE, FALSE)
    /\ sent' = sent + 1
    /\ UNCHANGED << config, enable_ai, collaborator, ai_enhanced_detections, traffic, resets >>

\* AIPatternDetector.clear_history, which EnhancedAIPatternDetector inherits.
\* The caller then feeds its stream from the start again.
ClearHistory ==
    /\ resets < MaxResets
    /\ detections' = <<>>
    /\ request_history' = <<>>
    /\ endpoint_depths' = <<>>
    /\ parameter_counts' = <<>>
    /\ request_intervals' = <<>>
    /\ sent' = 0
    /\ resets' = resets + 1
    /\ last' = Call("clear_history", <<>>, FALSE, FALSE)
    /\ UNCHANGED << config, enable_ai, collaborator, ai_enhanced_detections, now, traffic >>

\* self.detections[-limit:]: the last `limit` entries for a positive limit,
\* the whole list for limit 0 (-0 is 0), the list without its first -limit
\* entries for a negative one.
get_recent_detections(limit) ==
    IF limit > 0 THEN Tail_k(detections, limit)
    ELSE IF -limit >= Len(detections) THEN <<>>
    ELSE SubSeq(detections, 1 - limit, Len(detections))

\* The limits callers pass.
MaxLimit == 3
Limits == 0..MaxLimit

\* A get_recent_detections call and the list it returned.
Recent(limit, result) == [op |-> "get_recent_detections", limit |-> limit, result |-> result]

\* AIPatternDetector.get_recent_detections(limit)
GetRecentDetections ==
    /\ \E limit \in Limits : last' = Recent(limit, get_recent_detections(limit))
    /\ UNCHANGED << config, enable_ai, collaborator, request_history, detections,
                    endpoint_depths, parameter_counts, request_intervals,
                    ai_enhanced_detections, now, traffic, sent, resets >>

\* ------------------------------------------------------------------------
\* The intent classifier: OllamaClient.classify_intent,
\* AIThreatAnalyzer.analyze_detection
\* ------------------------------------------------------------------------

\* A JSON value in the place of "confidence": a number (in hundredths),
\* a value that is no number, or no such key.
Number(n) == [json |-> "number", value |-> n]
NotANumber == [json |-> "string", value |-> 0]
NoValue == [json |-> "absent", value |-> 0]
Absent == "<absent>"

\* What client.generate gives for the classify_intent prompt: it raises
\* ("error"), answers text that is no JSON ("text"), JSON that is no object
\* ("array"), or a JSON object with the keys that are not absent.
Reply(kind, intent, confidence) == [kind |-> kind, intent |-> intent, confidence |-> confidence]

Intents == {"reconnaissance", "enumeration", "exploitation", "normal", "suspicious", Absent}
Confidences == {Number(20), Number(30), Number(70), Number(90), NotANumber, NoValue}

Replies ==
    { Reply(kind, Absent, NoValue) : kind \in {"error", "text", "array"} }
    \cup { Reply("object", intent, confidence) : intent \in Intents, confidence \in Confidences }

\* The time one client.generate call takes, in ticks.
Latencies == {0, TicksPerSecond}

\* The collaborator: whether OllamaClient.is_available(), whether the call of
\* ai_analyzer.analyze_detection raises whatever the Detection (an analyzer
\* that is broken as a whole), the reply to the intent prompt and the time
\* each client.generate call takes.
Collaborator(available, raises, reply, latency) ==
    [available |-> available, raises |-> raises, reply |-> reply, latency |-> latency]

\* No Ollama: is_available() is false.
NoCollaborator == Collaborator(FALSE, FALSE, Reply("error", Absent, NoValue), 0)

\* The replies of the collaborators that take their time.
SlowReplies ==
    { Reply("object", "exploitation", Number(90)), Reply("object", "normal", Number(20)) }

Collaborators ==
    { NoCollaborator,
      Collaborator(TRUE, TRUE, Reply("error", Absent, NoValue), 0) }
    \cup { Collaborator(TRUE, FALSE, reply, 0) : reply \in Replies }
    \cup { Collaborator(TRUE, FALSE, reply, latency) :
              reply \in SlowReplies, latency \in Latencies \ {0} }

\* The dict OllamaClient.classify_intent returns when Ollama is available.
classify_intent(reply) ==
    CASE reply.kind = "error" -> [intent |-> "unknown", confidence |-> Number(0)]
      [] reply.kind = "text"  -> [response |-> "text"]
      [] reply.kind = "array" -> [intent |-> "unknown", confidence |-> Number(50)]
      [] reply.kind = "object" ->
           LET keys == (IF reply.intent # Absent THEN {"intent"} ELSE {})
                       \cup (IF reply.confidence # NoValue THEN {"confidence"} ELSE {})
           IN  [k \in keys |-> IF k = "intent" THEN reply.intent ELSE reply.confidence]

\* json.dumps(detection_data["details"]) of OllamaClient.explain_threat
\* succeeds: the "detected" of the anomaly detector is the Python False of
\* its early return; once the z-scores are computed it is the np.bool_ of a
\* comparison of np.float64 values, which json.dumps refuses with TypeError.
Serializable(details) == "features" \notin DOMAIN details.anomaly_detection

\* The client.generate calls that AIThreatAnalyzer.analyze_detection makes
\* for the Detection: none without Ollama; else the one of
\* analyze_request_pattern when explain_threat then raises building its
\* prompt; else those of analyze_request_pattern, explain_threat,
\* suggest_response and classify_intent.
GenerateCalls(detection, coll) ==
    IF coll.raises \/ ~coll.available THEN 0
    ELSE IF ~Serializable(detection.details) THEN 1
    ELSE 4

\* AIThreatAnalyzer.analyze_detection: the dict it returns, or the exception
\* that leaves it.  explain_threat builds its prompt outside its try, so the
\* TypeError of json.dumps is not handled there.
analyze_detection(detection, coll) ==
    IF coll.raises THEN Raised("analyze_detection", "Exception")
    ELSE IF ~coll.available THEN [ai_enhanced |-> FALSE]
    ELSE IF ~Serializable(detection.details) THEN Raised("analyze_detection", "TypeError")
    ELSE LET intent == classify_intent(coll.reply)
         IN  [ ai_enhanced |-> TRUE,
               intent |-> Get(intent, "intent", "unknown"),
               intent_confidence |-> Get(intent, "confidence", Number(0)) ]

\* The call ended with an exception.
IsRaised(result) == "error" \in DOMAIN result

\* ------------------------------------------------------------------------
\* EnhancedAIPatternDetector.analyze_request
\* ------------------------------------------------------------------------

AttackIntents == {"reconnaissance", "enumeration", "exploitation"}

\* Boost: min(100, score + 5), MALICIOUS from 70.
Boosted(detection) ==
    LET score == Min(100, detection.threat_score + 5)
    IN  [detection EXCEPT !.threat_score = score,
                          !.threat_level = IF score >= 70 THEN MALICIOUS ELSE @]

\* The reduction without the level forced to NORMAL.
Reduced_level_kept(detection) ==
    [detection EXCEPT !.threat_score = Max(0, detection.threat_score - 10)]

\* Reduction: max(0, score - 10), NORMAL below 30.
Reduced(detection) ==
    LET score == Max(0, detection.threat_score - 10)
    IN  [detection EXCEPT !.threat_score = score,
                          !.threat_level = IF score < 30 THEN NORMAL ELSE @]

\* The Detection after the adjustment of its score by ai_analysis.  Comparing
\* a confidence that is no number raises TypeError, which the handler's
\* except clause swallows: the Detection stays as it is.
Rescored(detection, ai_analysis) ==
    IF ~Get(ai_analysis, "ai_enhanced", FALSE) THEN detection
    ELSE
      LET intent_confidence == Get(ai_analysis, "intent_confidence", Number(50))
          intent == Get(ai_analysis, "intent", Absent)
      IN  IF intent_confidence.json # "number" THEN detection
          ELSE IF intent_confidence.value > 70 /\ intent \in AttackIntents
               THEN Boosted(detection)
          ELSE IF intent_confidence.value < 30 /\ intent = "normal"
               THEN Reduced(detection)
          ELSE detection

\* The AI analysis asked for every Detection, NORMAL ones too.
Consults_every(detection) == enable_ai

\* Whether the handler goes to the AI analysis for a rule-based Detection.
Consults(detection) == enable_ai /\ detection.threat_level # NORMAL

\* The record kept with a copy of the Detection as the rules made it.
Enhancement_copy(rule, detection, ai_analysis, finish) ==
    [detection |-> rule, ai_analysis |-> ai_analysis, timestamp |-> finish]

\* The record appended to self.ai_enhanced_detections: it refers to the
\* Detection object that the adjustment then changes in place, so it shows
\* the Detection as adjusted; its timestamp is the datetime.now() read when
\* the analysis is back.
Enhancement(rule, detection, ai_analysis, finish) ==
    [detection |-> detection, ai_analysis |-> ai_analysis, timestamp |-> finish]

\* The collaborator accepts the request and sends no answer: Client(host=...)
\* is built without a timeout and nothing else bounds client.generate.
Silent == Reply("none", Absent, NoValue)

\* analyze_request is inside the client.generate call number `call` of
\* analyze_detection, after super().analyze_request returned the Detection
\* `rule`, and has waited `waited` ticks in it.
InGenerateWith(rule, call, waited) ==
    [op |-> "generate", rule |-> rule, call |-> call, waited |-> waited]
InGenerate == last.op = "generate"

\* EnhancedAIPatternDetector.analyze_request once super().analyze_request
\* has returned the Detection `rule` at `clock`, when the handler makes no
\* client.generate call: the rule-based Detection is NORMAL or AI is off
\* (no analysis), Ollama is unavailable (the analysis says so and is kept),
\* or the analyzer call raises (the handler's except clause catches it:
\* nothing is kept and the Detection stays as the rules made it).
Enhance(rule, clock) ==
    LET consulted == Consults(rule)
        ai_analysis == analyze_detection(rule, collaborator)
        failed == consulted /\ IsRaised(ai_analysis)
        detection == IF consulted /\ ~failed THEN Rescored(rule, ai_analysis) ELSE rule
    IN  /\ detections' = DetectionsAfter(detection)
        /\ ai_enhanced_detections' =
             IF consulted /\ ~failed
             THEN Append(ai_enhanced_detections,
                         Enhancement(rule, detection, ai_analysis, clock))
             ELSE ai_enhanced_detections
        /\ now' = clock
        /\ last' = Call("analyze_request", rule, consulted, failed)

\* EnhancedAIPatternDetector.analyze_request after super().analyze_request:
\* when the AI analysis goes to the collaborator the handler is in the
\* client.generate of analyze_request_pattern, the request in the history
\* and the series and the rule-based Detection in self.detections already;
\* otherwise it runs to its end.
EnhanceOrWait(rule, clock) ==
    IF Consults(rule) /\ GenerateCalls(rule, collaborator) > 0
    THEN /\ detections' = DetectionsAfter(rule)
         /\ ai_enhanced_detections' = ai_enhanced_detections
         /\ now' = clock
         /\ last' = InGenerateWith(rule, 1, 0)
    ELSE Enhance(rule, clock)

\* EnhancedAIPatternDetector.analyze_request on the next request of the
\* stream, up to its first client.generate, or to its end when it does not
\* get there; the caller is in no call.
EnhancedAnalyzeRequest ==
    /\ ~InGenerate
    /\ sent < traffic.limit
    /\ \E tie \in RoundingsAt(NextRequest, ClockAt(NextRequest)) :
          EnhanceOrWait(analyze_request(NextRequest, ClockAt(NextRequest), tie),
                        ClockAt(NextRequest))
    /\ EngineAfter(NextRequest)
    /\ sent' = sent + 1
    /\ UNCHANGED << config, enable_ai, collaborator, traffic, resets >>

\* The rest of the handler once the client.generate of classify_intent is
\* over with `reply`: the stored Detection gets its adjusted score and is
\* kept with its analysis and the datetime.now() of that moment.
Resume(reply) ==
    LET rule == last.rule
        ai_analysis == analyze_detection(rule, Collaborator(TRUE, FALSE, reply, 0))
        detection == Rescored(rule, ai_analysis)
    IN  /\ detections' = [detections EXCEPT ![Len(detections)] = detection]
        /\ ai_enhanced_detections' =
              Append(ai_enhanced_detections,
                     Enhancement(rule, detection, ai_analysis, now))
        /\ last' = Call("analyze_request", rule, TRUE, FALSE)

\* The handler goes on after its client.generate call is over.  After the
\* call of analyze_request_pattern, explain_threat raises TypeError for
\* details that json.dumps refuses: the handler ends with the rule-based
\* Detection and keeps nothing.  The answers to the first three prompts go
\* into texts of the analysis only; the fourth is the intent.
AfterGenerate(reply) ==
    /\ IF last.call = 1 /\ ~Serializable(last.rule.details)
       THEN /\ last' = Call("analyze_request", last.rule, TRUE, TRUE)
            /\ UNCHANGED << detections, ai_enhanced_detections >>
       ELSE IF last.call < 4
       THEN /\ last' = InGenerateWith(last.rule, last.call + 1, 0)
            /\ UNCHANGED << detections, ai_enhanced_detections >>
       ELSE Resume(reply)
    /\ UNCHANGED << config, enable_ai, collaborator, request_history, endpoint_depths,
                    parameter_counts, request_intervals, now, traffic, sent, resets >>

\* Time passes while the handler is blocked in client.generate: the time
\* the collaborator takes for one call.
GenerateWaits ==
    /\ InGenerate
    /\ last.waited < collaborator.latency
    /\ now' = now + collaborator.latency
    /\ last' = [last EXCEPT !.waited = collaborator.latency]
    /\ UNCHANGED << config, enable_ai, collaborator, request_history, detections,
                    endpoint_depths, parameter_counts, request_intervals,
                    ai_enhanced_detections, traffic, sent, resets >>

\* client.generate is over for a collaborator that answers: it returns the
\* answer, or raises for a collaborator that answers with an error, which
\* the method that called it turns into its error answer.
GenerateReturns ==
    /\ InGenerate
    /\ last.waited = collaborator.latency
    /\ collaborator.reply # Silent
    /\ AfterGenerate(collaborator.reply)

\* clear_history between two calls of the (single) caller.
ClearHistoryBetweenCalls == ~InGenerate /\ ClearHistory

\* Python's None.
None == [none |-> TRUE]

\* EnhancedAIPatternDetector.get_ai_enhanced_detection: the ai_analysis of
\* the first record kept whose Detection has the timestamp and the endpoint
\* (and the ip_address, one and the same for the whole stream) of
\* `detection`.
get_ai_enhanced_detection(detection) ==
    LET matching == {i \in DOMAIN ai_enhanced_detections :
                        LET stored_det == ai_enhanced_detections[i].detection
                        IN  /\ stored_det.timestamp = detection.timestamp
                            /\ stored_det.request.endpoint = detection.request.endpoint}
    IN  IF matching = {} THEN None
        ELSE ai_enhanced_detections[SetMin(matching)].ai_analysis

\* ------------------------------------------------------------------------
\* Specifications
\* ------------------------------------------------------------------------

\* The engine as constructed, whatever its configuration.
Fresh ==
    /\ request_history = <<>>
    /\ detections = <<>>
    /\ endpoint_depths = <<>>
    /\ parameter_counts = <<>>
    /\ request_intervals = <<>>
    /\ ai_enhanced_detections = <<>>
    /\ now = 0
    /\ sent = 0
    /\ resets = 0
    /\ last = Call("init", <<>>, FALSE, FALSE)

\* The engine as constructed with Config().
Constructed == config = DefaultConfig /\ Fresh

\* AIPatternDetector(config) fed one of the streams.
Init ==
    /\ Constructed
    /\ enable_ai = FALSE
    /\ collaborator = NoCollaborator
    /\ traffic \in Streams

Next == AnalyzeRequest \/ ClearHistory

Spec == Init /\ [][Next]_vars

\* The streams fed to the enhanced engine.  The fast ones change their pace
\* after the second or a later request: their intervals are not all equal,
\* so that np.std of the intervals is positive whatever the rounding.
EnhancedStreams ==
    { Stream(2, p[1], p[2], FALSE, MaxRequests) :
         p \in { <<PacedPath, FastPath>>, <<FastPath, PacedPath>>, <<SameFixed, FastFixed>> } }
    \cup { Stream(0, SlowPath, SlowPath, FALSE, MaxRequests) }
    \cup { Stream(first, SameFixed, FastPath, FALSE, MaxRequests) : first \in {3, 5} }
    \cup { Stream(MinAnomalySamples, SlowFixed, SlowDeep, FALSE, MaxRequests) }

\* Config() with AI_ANALYSIS_ENABLED off.
AIDisabledConfig == [DefaultConfig EXCEPT !.AI_ANALYSIS_ENABLED = FALSE]

\* The enable_ai argument alone.
EnableAI_argument(argument, cfg) == argument

\* self.enable_ai = enable_ai and config.AI_ANALYSIS_ENABLED
EnableAI(argument, cfg) == argument /\ cfg.AI_ANALYSIS_ENABLED

\* EnhancedAIPatternDetector(config, enable_ai) with its collaborator; there
\* is no analyzer when self.enable_ai is false.
InitEnhanced ==
    /\ config \in {DefaultConfig, AIDisabledConfig}
    /\ Fresh
    /\ \E argument \in BOOLEAN : enable_ai = EnableAI(argument, config)
    /\ IF enable_ai
       THEN collaborator \in Collaborators
       ELSE collaborator = NoCollaborator
    /\ traffic \in EnhancedStreams

NextEnhanced ==
    \/ EnhancedAnalyzeRequest
    \/ GenerateWaits
    \/ GenerateReturns
    \/ ClearHistoryBetweenCalls

SpecEnhanced == InitEnhanced /\ [][NextEnhanced]_vars

\* config.SUPERHUMAN_SPEED_THRESHOLD = 5.0 of test_speed_threshold_config
TestSpeedThreshold == 5

\* A history capacity small enough for the streams to exceed.
SmallCapacity == 10

\* The configurations the engines are built with: Config(), Config() with
\* the speed threshold of the test, Config() with a small history.
LowThreshold == [DefaultConfig EXCEPT !.SUPERHUMAN_SPEED_THRESHOLD = TestSpeedThreshold]
SmallHistory == [DefaultConfig EXCEPT !.MAX_HISTORY_SIZE = SmallCapacity]
Configs == {DefaultConfig, LowThreshold, SmallHistory}

\* The streams fed to the configured engines.
ConfiguredStreams ==
    { Stream(0, b, b, live, MaxRequests) :
         b \in {FastPath, BriskPath, FastFixed, SameFixed, EarlierFixed}, live \in BOOLEAN }
    \cup { Stream(first, LateFixed, SameFixed, TRUE, MaxRequests) : first \in {2, 3} }

\* AIPatternDetector(config) for each of the configurations.
InitConfigured ==
    /\ config \in Configs
    /\ Fresh
    /\ enable_ai = FALSE
    /\ collaborator = NoCollaborator
    /\ traffic \in ConfiguredStreams

NextConfigured == AnalyzeRequest \/ ClearHistory \/ GetRecentDetections

SpecConfigured == InitConfigured /\ [][NextConfigured]_vars

\* ------------------------------------------------------------------------
\* The engine fed enumerations
\* ------------------------------------------------------------------------

SlowItem   == Kind(TicksPerSecond, "item", 0)    \* /api/item/<i>
SlowPage   == Kind(TicksPerSecond, "page", 1)    \* /api/data?page=<i>
SlowPairs  == Kind(TicksPerSecond, "pairs", 0)   \* /api/user/1, 1, 2, 2, 3, 3, ...
SlowSteps  == Kind(TicksPerSecond, "steps", 0)   \* /api/user/1, 3, 4, 6, 7, 9, ...
SlowZigzag == Kind(TicksPerSecond, "zigzag", 0)  \* /api/user/2, 1, 4, 3, 6, 5, ...
SlowJumps  == Kind(TicksPerSecond, "jumps", 0)   \* /api/user/1, 2, 4, 5, 6, 10, 11, 12, 18, ...

\* The length of an enumeration that is followed by other requests.
EnumeratedRun == 6

\* Enumerations with duplicates, with two and with three step widths and
\* out of order; two groups of one matcher and one group of each matcher,
\* one after the other; an enumeration followed by more requests than the
\* detector inspects.
EnumerationStreams ==
    { Stream(0, b, b, TRUE, MaxRequests) : b \in {SlowPairs, SlowSteps, SlowZigzag, SlowJumps} }
    \cup { Stream(first, p[1], p[2], TRUE, MaxRequests) :
              first \in {2, 5, 7},
              p \in { <<SlowParam, SlowPath>>, <<SlowPath, SlowParam>>,
                      <<SlowItem, SlowPath>>, <<SlowParam, SlowPage>> } }
    \cup { Stream(EnumeratedRun, a, SlowFixed, TRUE, EnumeratedRun + EnumerationWindow + 1) :
              a \in {SlowPath, SlowParam} }

InitEnumeration ==
    /\ Constructed
    /\ enable_ai = FALSE
    /\ collaborator = NoCollaborator
    /\ traffic \in EnumerationStreams

NextEnumeration == AnalyzeRequest \/ ClearHistory

SpecEnumeration == InitEnumeration /\ [][NextEnumeration]_vars

\* ------------------------------------------------------------------------
\* The enhanced engine and a collaborator that stops answering
\* ------------------------------------------------------------------------

\* The connection breaks while the handler waits, after the time the
\* collaborator takes: client.generate raises and the method that called it
\* turns that into its error answer.
GenerateFails ==
    /\ InGenerate
    /\ last.waited = collaborator.latency
    /\ AfterGenerate(Reply("error", Absent, NoValue))

\* The streams fed to it: long enough for Detections that are not NORMAL
\* and for requests past the 10th, whose details json.dumps refuses.
ShortRun == 11
UnansweredStreams ==
    { Stream(0, b, b, FALSE, ShortRun) : b \in {FastPath, PacedPath, SlowPath, FastFixed} }

\* EnhancedAIPatternDetector() whose collaborator was available when it was
\* built and answers, is unavailable, or is silent from then on.
InitUnanswered ==
    /\ Constructed
    /\ enable_ai = EnableAI(TRUE, config)
    /\ collaborator \in
          { NoCollaborator }
          \cup { Collaborator(TRUE, FALSE, reply, latency) :
                    reply \in {Silent, Reply("object", "enumeration", Number(90))},
                    latency \in Latencies }
          \cup { Collaborator(TRUE, FALSE, Reply("object", "normal", Number(20)), 0) }
    /\ traffic \in UnansweredStreams

NextUnanswered ==
    \/ EnhancedAnalyzeRequest
    \/ GenerateWaits
    \/ GenerateReturns
    \/ GenerateFails
    \/ ClearHistoryBetweenCalls

\* Time passes and an answer that has arrived is processed: the handler
\* goes on once client.generate can return.  Nothing obliges the connection to break,
\* nor the caller to submit.
SpecUnanswered ==
    InitUnanswered /\ [][NextUnanswered]_vars
        /\ WF_vars(GenerateWaits) /\ WF_vars(GenerateReturns)

\* Config() with SUPERHUMAN_SPEED_THRESHOLD set to 0 (the environment
\* variable of that name is read without a check).
ZeroSpeedThreshold == [DefaultConfig EXCEPT !.SUPERHUMAN_SPEED_THRESHOLD = 0]

\* The streams fed to the engine built with it.
UnvalidatedStreams ==
    { Stream(0, b, b, live, MaxRequests) :
         b \in {FastPath, FastFixed, SameFixed, SlowFixed}, live \in BOOLEAN }

\* AIPatternDetector(config): __init__ stores the configuration as it is.
InitUnvalidated ==
    /\ config = ZeroSpeedThreshold
    /\ Fresh
    /\ enable_ai = FALSE
    /\ collaborator = NoCollaborator
    /\ traffic \in UnvalidatedStreams

SpecUnvalidated == InitUnvalidated /\ [][Next]_vars

\* ------------------------------------------------------------------------
\* Properties of the engine
\* ------------------------------------------------------------------------

\* The last call was analyze_request; Returned is the Detection it returned.
Analysed == last.op = "analyze_request"
Returned == Last(detections)

\* The verdict of the collaborator is its reply to the intent prompt when
\* that is a JSON object with an intent and a numeric confidence.
Verdict == collaborator.reply
WellFormed(reply) ==
    /\ reply.kind = "object"
    /\ reply.intent # Absent
    /\ reply.confidence.json = "number"

\* The rule-based Detection of the call was not NORMAL, on an engine with
\* AI enabled whose collaborator is there and gives a verdict.
HasVerdict ==
    /\ Analysed
    /\ enable_ai
    /\ last.rule.threat_level # NORMAL
    /\ collaborator.available
    /\ ~collaborator.raises
    /\ WellFormed(Verdict)

BoostVerdict ==
    /\ Verdict.confidence.value > 70
    /\ Verdict.intent \in {"reconnaissance", "enumeration", "exploitation"}

ReduceVerdict ==
    /\ Verdict.confidence.value < 30
    /\ Verdict.intent = "normal"

\* The analysis of the call came back and was kept: Kept is its record.
Enhanced == Analysed /\ last.consulted /\ ~last.failed
Kept == Last(ai_enhanced_detections)

\* C1: every Detection has 0 <= threat_score <= 100 and the threat_level
\* that is the fixed function of its score (NORMAL below 30, SUSPICIOUS
\* from 30 and below 70, MALICIOUS from 70), after rescoring too.
C1_LevelIsFunctionOfScore ==
    \A i \in DOMAIN detections :
       LET d == detections[i]
       IN  /\ 0 <= d.threat_score
           /\ d.threat_score <= 100
           /\ d.threat_score < 30 => d.threat_level = NORMAL
           /\ (30 <= d.threat_score /\ d.threat_score < 70) => d.threat_level = SUSPICIOUS
           /\ d.threat_score >= 70 => d.threat_level = MALICIOUS

\* The detection list of an enhanced engine whose collaborator answers
\* normal/0.2 holds a Detection that the rules scored 30 (an enumeration of
\* length 6), reduced to 20 and NORMAL, and the Detection just returned has
\* the rule-based score 75 and is MALICIOUS.
C1_ReducedAndMalicious ==
    /\ HasVerdict
    /\ ReduceVerdict
    /\ Returned.threat_score = 75
    /\ Returned.threat_level = MALICIOUS
    /\ \E i \in DOMAIN detections :
          /\ detections[i].details.enumeration_detection.detected
          /\ detections[i].details.enumeration_detection.sequence_length = 6
          /\ detections[i].threat_score = 20
          /\ detections[i].threat_level = NORMAL

\* The verdict cannot be obtained: no collaborator, the analyzer call
\* raises (as a whole, or for this Detection), or the reply is not a JSON
\* object with an intent and a numeric confidence.
VerdictUnobtainable ==
    \/ ~collaborator.available
    \/ collaborator.raises
    \/ last.failed
    \/ ~WellFormed(collaborator.reply)

\* C2: when the verdict cannot be obtained, the Detection returned has the
\* threat_score, threat_level and pattern_type of the rule-based Detection.
C2_FailureKeepsRuleDetection ==
    (Analysed /\ enable_ai /\ VerdictUnobtainable) =>
        /\ Returned.threat_score = last.rule.threat_score
        /\ Returned.threat_level = last.rule.threat_level
        /\ Returned.pattern_type = last.rule.pattern_type

\* A reply {"intent": "normal"} without a confidence reduces the score.
C2_MalformedReplyReduces ==
    /\ Enhanced
    /\ collaborator.reply = Reply("object", "normal", NoValue)
    /\ last.rule.threat_score = 30
    /\ last.rule.threat_level = SUSPICIOUS
    /\ Returned.threat_score = 20
    /\ Returned.threat_level = NORMAL

\* C3: a boost verdict (confidence > 0.7, attack intent) on a non-NORMAL
\* rule-based Detection of score s returns score min(100, s + 5), with level
\* MALICIOUS when that is >= 70 and the rule-based level otherwise.
C3_Boost ==
    (HasVerdict /\ BoostVerdict) =>
        /\ Returned.threat_score = Min(100, last.rule.threat_score + 5)
        /\ Returned.threat_level =
             IF Returned.threat_score >= 70 THEN MALICIOUS ELSE last.rule.threat_level

\* Score 65 with a collaborator that answers exploitation/0.9: the analysis
\* raised on the details, and the Detection is returned with score 65,
\* SUSPICIOUS.
C3_SixtyFiveNotBoosted ==
    /\ HasVerdict
    /\ Verdict.intent = "exploitation"
    /\ Verdict.confidence = Number(90)
    /\ last.rule.threat_score = 65
    /\ last.rule.threat_level = SUSPICIOUS
    /\ last.consulted
    /\ last.failed
    /\ ~Serializable(last.rule.details)
    /\ Returned.threat_score = 65
    /\ Returned.threat_level = SUSPICIOUS

\* C4: a reduction verdict (confidence < 0.3, intent normal) on a non-NORMAL
\* rule-based Detection of score s returns score max(0, s - 10), with level
\* NORMAL when that is < 30.
C4_Reduction ==
    (HasVerdict /\ ReduceVerdict) =>
        /\ Returned.threat_score = Max(0, last.rule.threat_score - 10)
        /\ Returned.threat_score < 30 => Returned.threat_level = NORMAL

\* Score 35 with a collaborator that answers normal/0.2: the analysis
\* raised on the details, and the Detection is returned with score 35,
\* SUSPICIOUS, where the reduction gives 25 and NORMAL.
C4_ThirtyFiveNotReduced ==
    /\ HasVerdict
    /\ ReduceVerdict
    /\ last.rule.threat_score = 35
    /\ last.consulted
    /\ last.failed
    /\ ~Serializable(last.rule.details)
    /\ Returned.threat_score = 35
    /\ Returned.threat_level = SUSPICIOUS

\* C5: a NORMAL rule-based Detection is returned as it is without the
\* collaborator being consulted, and a verdict that is neither a boost nor a
\* reduction verdict leaves threat_score and threat_level as they were.
C5_Frame ==
    Analysed =>
        /\ last.rule.threat_level = NORMAL =>
              (~last.consulted /\ Returned = last.rule)
        /\ (HasVerdict /\ ~BoostVerdict /\ ~ReduceVerdict) =>
              /\ Returned.threat_score = last.rule.threat_score
              /\ Returned.threat_level = last.rule.threat_level

\* An attack intent at confidence exactly 0.7 came back, was kept and
\* changed nothing.
C5_ExactlySeventy ==
    /\ HasVerdict
    /\ Enhanced
    /\ Kept.ai_analysis.intent = "exploitation"
    /\ Kept.ai_analysis.intent_confidence = Number(70)
    /\ Kept.detection = Returned
    /\ Returned.threat_score = last.rule.threat_score
    /\ Returned.threat_level = last.rule.threat_level

\* C6: the pattern label follows the fixed priority whatever the sub-scores:
\* SUPERHUMAN_SPEED if the speed detector fired, else SYSTEMATIC_ENUMERATION
\* if the enumeration detector fired, else BEHAVIORAL_ANOMALY if the anomaly
\* detector fired, else NORMAL.
C6_PatternPriority ==
    \A i \in DOMAIN detections :
       LET d == detections[i]
       IN  d.pattern_type =
             IF d.details.speed_detection.detected THEN SUPERHUMAN_SPEED
             ELSE IF d.details.enumeration_detection.detected THEN SYSTEMATIC_ENUMERATION
             ELSE IF d.details.anomaly_detection.detected THEN BEHAVIORAL_ANOMALY
             ELSE NORMAL

\* Speed and enumeration both fired, enumeration with the larger sub-score,
\* and the label is SUPERHUMAN_SPEED.
C6_SpeedOverLargerEnumeration ==
    /\ Analysed
    /\ Returned.details.speed_detection.detected
    /\ Returned.details.enumeration_detection.detected
    /\ Less(SpeedScore(Returned.details.speed_detection),
            EnumScore(Returned.details.enumeration_detection))
    /\ Returned.pattern_type = SUPERHUMAN_SPEED

\* All requests since construction or reset are a burst: at least 10, every
\* timestamp no older than the speed window, more than 10 per second over
\* the time from the first to the last.
Burst ==
    /\ Len(request_history) >= 10
    /\ \A i \in DOMAIN request_history :
          request_history[i].timestamp >= now - SPEED_WINDOW_SECONDS * TicksPerSecond
    /\ Len(request_history) * TicksPerSecond
         > SUPERHUMAN_SPEED_THRESHOLD
             * (Last(request_history).timestamp - request_history[1].timestamp)

\* C7: a burst fed to a fresh engine yields a SUPERHUMAN_SPEED Detection from
\* the 10th request on, also when the requests enumerate one base path.
C7_BurstIsSuperhumanSpeed ==
    (Analysed /\ Burst) =>
        /\ Returned.details.speed_detection.detected
        /\ Returned.pattern_type = SUPERHUMAN_SPEED

\* The 10th request of a burst, analysed at its own timestamp, that also
\* completes an enumeration.
C7_TenthOfEnumeratingBurst ==
    /\ Analysed
    /\ Burst
    /\ Len(request_history) = 10
    /\ \A i \in DOMAIN request_history : request_history[i].timestamp <= now
    /\ Returned.details.enumeration_detection.detected
    /\ Returned.pattern_type = SUPERHUMAN_SPEED

\* All requests since construction or reset go to /api/user/1, /api/user/2,
\* ... in order, one second apart.
EnumerationFeed ==
    \A i \in DOMAIN request_history :
       /\ request_history[i].request.endpoint = EndpointOf("path", i)
       /\ i > 1 => request_history[i].timestamp - request_history[i - 1].timestamp
                     = TicksPerSecond

\* C8: on requests to one base path with trailing integers 1, 2, ... one
\* second apart, requests 1-4 yield no SYSTEMATIC_ENUMERATION, the 5th and
\* every later request yields SYSTEMATIC_ENUMERATION with sequence_length
\* >= 5, and the speed detector never fires.
C8_EnumerationFromFifth ==
    (Analysed /\ EnumerationFeed) =>
        /\ ~Returned.details.speed_detection.detected
        /\ Len(detections) <= 4 =>
              /\ ~Returned.details.enumeration_detection.detected
              /\ Returned.pattern_type # SYSTEMATIC_ENUMERATION
        /\ Len(detections) >= 5 =>
              /\ Returned.pattern_type = SYSTEMATIC_ENUMERATION
              /\ Returned.details.enumeration_detection.sequence_length >= 5

\* The 20th request of the feed.
C8_Twentieth ==
    /\ Analysed
    /\ EnumerationFeed
    /\ Len(detections) = 20
    /\ Returned.pattern_type = SYSTEMATIC_ENUMERATION
    /\ Returned.details.enumeration_detection.sequence_length = 20

\* C9: while fewer than 10 requests have been analysed since construction
\* or the last reset, the anomaly detector reports not detected and no
\* Detection is a BEHAVIORAL_ANOMALY.
C9_NoAnomalyBeforeTen ==
    (Analysed /\ Len(detections) < 10) =>
        /\ ~Returned.details.anomaly_detection.detected
        /\ Returned.pattern_type # BEHAVIORAL_ANOMALY

\* The 9th request after a reset: a 10-segment endpoint with 6 parameters
\* after eight requests to /api/users, not detected.
C9_NinthAfterReset ==
    /\ Analysed
    /\ resets >= 1
    /\ Len(detections) = 9
    /\ endpoint_depths = <<3, 3, 3, 3, 3, 3, 3, 3, 10>>
    /\ Returned.request.parameters = 6
    /\ ~Returned.details.anomaly_detection.detected

\* C10: after clear_history the request history, the detection list, the
\* three feature series and the stored AI-enhancement records are empty.
C10_ResetEmptiesEngine ==
    last.op = "clear_history" =>
        /\ request_history = <<>>
        /\ detections = <<>>
        /\ endpoint_depths = <<>>
        /\ parameter_counts = <<>>
        /\ request_intervals = <<>>
        /\ ai_enhanced_detections = <<>>

\* The enhanced engine after clear_history with AI records still stored.
C10_RecordsSurviveReset ==
    /\ last.op = "clear_history"
    /\ detections = <<>>
    /\ ai_enhanced_detections # <<>>

\* ------------------------------------------------------------------------
\* Properties of the configured engines
\* ------------------------------------------------------------------------

\* The last call was analyze_request and it returned a Detection, last.rule.
Answered == Analysed /\ "rule" \in DOMAIN last

\* The entries of the history that are inside the speed window now.
InSpeedWindow ==
    SelectSeq(request_history,
              LAMBDA r : r.timestamp >= now - config.SPEED_WINDOW_SECONDS * TicksPerSecond)

\* The speed detector computed a rate over entries that all carry the same
\* timestamp.
ZeroTimespan ==
    /\ Analysed
    /\ Len(request_history) >= MinSpeedRequests
    /\ Len(InSpeedWindow) >= 2
    /\ \A i \in DOMAIN InSpeedWindow : InSpeedWindow[i].timestamp = InSpeedWindow[1].timestamp

\* C11: when all the requests selected in the speed window carry the same
\* timestamp, analyze_request raises nothing and the speed detector reports
\* the rate count / 0.1, that is 10 * count requests a second, which is at
\* most 10 times the history capacity.
C11_ZeroTimespanRate ==
    ZeroTimespan =>
       /\ Answered
       /\ last.rule.details.speed_detection.requests_per_second = 100 * 10 * Len(InSpeedWindow)
       /\ last.rule.details.speed_detection.requests_per_second
             <= 100 * 10 * config.MAX_HISTORY_SIZE

\* A full small history of requests with one timestamp: the rate reaches 10
\* times the capacity.
C11_RateAtCapacity ==
    /\ ZeroTimespan
    /\ Answered
    /\ config = SmallHistory
    /\ sent > SmallCapacity
    /\ last.rule.details.speed_detection.requests_per_second = 100 * 10 * SmallCapacity

\* C12: while the history holds fewer than 10 requests the speed detector
\* reports not detected with requests_per_second = 0, and none of the first
\* 9 Detections of an engine is labelled SUPERHUMAN_SPEED.
C12_NoSpeedBeforeTen ==
    /\ (Answered /\ Len(request_history) < MinSpeedRequests) =>
          /\ ~last.rule.details.speed_detection.detected
          /\ last.rule.details.speed_detection.requests_per_second = 0
          /\ last.rule.pattern_type # SUPERHUMAN_SPEED
    /\ \A i \in DOMAIN detections :
          i < MinSpeedRequests => detections[i].pattern_type # SUPERHUMAN_SPEED

\* Nine requests with one timestamp, under the lowest of the thresholds.
C12_NineAtOnce ==
    /\ Answered
    /\ config = LowThreshold
    /\ resets = 0
    /\ sent = MinSpeedRequests - 1
    /\ Len(request_history) = MinSpeedRequests - 1
    /\ \A i \in DOMAIN request_history : request_history[i].timestamp = now
    /\ ~last.rule.details.speed_detection.detected

\* The stream is of one kind and its requests come faster than `threshold`
\* requests a second.
StreamRateAbove(threshold) ==
    /\ traffic.a = traffic.b
    /\ traffic.a.gap >= 0
    /\ TicksPerSecond > threshold * traffic.a.gap

\* C13 as stated: a fresh engine with the threshold 5 that was fed 6
\* requests at a rate above 5 a second has labelled at least one of them
\* SUPERHUMAN_SPEED.
C13_SixRequestsLabelled ==
    (/\ config = LowThreshold
     /\ StreamRateAbove(TestSpeedThreshold)
     /\ resets = 0
     /\ sent = 6
     /\ Len(detections) = 6) =>
       \E i \in DOMAIN detections : detections[i].pattern_type = SUPERHUMAN_SPEED

\* Six requests at more than 5 a second were fed to a fresh engine with the
\* threshold 5, and the speed detector fired for none of them.
C13_SixRequestsNoneLabelled ==
    /\ Answered
    /\ config = LowThreshold
    /\ traffic.a = BriskPath
    /\ StreamRateAbove(TestSpeedThreshold)
    /\ resets = 0
    /\ sent = 6
    /\ Len(detections) = 6
    /\ \A i \in DOMAIN detections :
          /\ ~detections[i].details.speed_detection.detected
          /\ detections[i].pattern_type # SUPERHUMAN_SPEED

\* The number of requests analysed since the last reset: a depth sample is
\* kept for each of them (up to SeriesCap, which the streams stay below).
SinceReset == Len(endpoint_depths)

\* The sequence holds the last Len(requests) requests submitted, in the
\* order of submission: the endpoints and parameters of the stream at those
\* positions, each stamped its kind's gap after the one before it.
LastSubmitted(requests) ==
    \A j \in DOMAIN requests :
       LET k == sent - Len(requests) + j
       IN  /\ requests[j].endpoint = EndpointOf(KindAt(k).shape, k)
           /\ requests[j].parameters = KindAt(k).parameters
           /\ j > 1 => requests[j].timestamp = requests[j - 1].timestamp + KindAt(k).gap

\* C14: the request history never holds more than MAX_HISTORY_SIZE entries
\* and holds exactly the last min(n, MAX_HISTORY_SIZE) of the n requests
\* submitted since the last reset, in submission order, identical requests
\* and out-of-order timestamps included.
C14_HistoryIsLastN ==
    /\ Len(request_history) <= config.MAX_HISTORY_SIZE
    /\ Len(request_history) = Min(SinceReset, config.MAX_HISTORY_SIZE)
    /\ resets = 0 => Len(request_history) = Min(sent, config.MAX_HISTORY_SIZE)
    /\ LastSubmitted([j \in DOMAIN request_history |-> request_history[j].request])
    /\ \A j \in DOMAIN request_history :
          request_history[j].timestamp = request_history[j].request.timestamp

\* More requests than the small capacity, each stamped before the one
\* submitted before it: the history is full and still in submission order.
C14_EvictedOutOfOrder ==
    /\ config = SmallHistory
    /\ traffic.a = EarlierFixed
    /\ SinceReset > SmallCapacity
    /\ Len(request_history) = SmallCapacity
    /\ request_history[1].timestamp > Last(request_history).timestamp

\* C16: every analyze_request call appends one Detection: after n calls
\* since the last reset the detection list has n entries, the i-th of them
\* for the i-th request submitted, whatever the capacity of the history.
C16_OneDetectionPerRequest ==
    /\ Len(detections) = SinceReset
    /\ resets = 0 => Len(detections) = sent
    /\ LastSubmitted([i \in DOMAIN detections |-> detections[i].request])
    /\ Answered => Last(detections) = last.rule

\* More Detections than the history has room for requests.
C16_MoreDetectionsThanHistory ==
    /\ Answered
    /\ config = SmallHistory
    /\ Len(request_history) = SmallCapacity
    /\ Len(detections) > SmallCapacity
    /\ detections[1].request # request_history[1].request

\* C15: get_recent_detections(limit) returns at most `limit` Detections,
\* whatever the limit and the number stored, and they are the most recently
\* produced ones in the order they were produced.
C15_AtMostLimitMostRecent ==
    last.op = "get_recent_detections" =>
       /\ Len(last.result) <= last.limit
       /\ Len(last.result) = Min(last.limit, Len(detections))
       /\ \A i \in DOMAIN last.result :
             last.result[i] = detections[Len(detections) - Len(last.result) + i]

\* The limit 0 returned every stored Detection, more of them than any of
\* the positive limits returns.
C15_LimitZeroReturnsAll ==
    /\ last.op = "get_recent_detections"
    /\ last.limit = 0
    /\ last.result = detections
    /\ Len(last.result) > MaxLimit

\* The wall-clock times at which two engines holding the same history are
\* handed the same request: as it arrives, and once the speed window has
\* gone by (a queued or replayed request).
Clocks(request) ==
    { request.timestamp,
      request.timestamp + (config.SPEED_WINDOW_SECONDS + 1) * TicksPerSecond }

\* What the claim compares of two Detections.
Outcome(detection) ==
    << detection.threat_score, detection.threat_level, detection.pattern_type >>

\* C17: two engines of one configuration that were fed the same requests
\* (and so hold the same history and feature series) give the next request
\* the same threat_score, threat_level and pattern_type, whatever the
\* wall-clock time of each call.
C17_SameOutcomeAtAnyClock ==
    sent < traffic.limit =>
       \A c1, c2 \in Clocks(NextRequest) :
       \A tie \in RoundingsAt(NextRequest, c1) \cup RoundingsAt(NextRequest, c2) :
          Outcome(analyze_request(NextRequest, c1, tie))
             = Outcome(analyze_request(NextRequest, c2, tie))

\* Nine requests of a burst are in: the tenth is SUPERHUMAN_SPEED for the
\* engine that analyses it as it arrives and NORMAL with score 0 for the
\* engine that analyses it eleven seconds later.
C17_TenthDependsOnClock ==
    /\ sent = MinSpeedRequests - 1
    /\ resets = 0
    /\ traffic.a = FastFixed
    /\ config = DefaultConfig
    /\ \A tie \in RoundingsAt(NextRequest, NextRequest.timestamp) :
          /\ analyze_request(NextRequest, NextRequest.timestamp, tie).pattern_type
                = SUPERHUMAN_SPEED
          /\ Outcome(analyze_request(NextRequest,
                         NextRequest.timestamp + (config.SPEED_WINDOW_SECONDS + 1) * TicksPerSecond,
                         tie))
                = << 0, NORMAL, NORMAL >>

\* ------------------------------------------------------------------------
\* Properties of the enhanced engine without its collaborator
\* ------------------------------------------------------------------------

\* C18: an enhanced engine built with enable_ai false or with the
\* AI_ANALYSIS_ENABLED flag off has AI disabled; it then returns and stores
\* the Detection of the rule-based engine unchanged, asks for no AI
\* analysis and records no AI enhancement.
C18_DisabledIsRuleBased ==
    /\ ~config.AI_ANALYSIS_ENABLED => ~enable_ai
    /\ ~enable_ai =>
          /\ ai_enhanced_detections = <<>>
          /\ Analysed =>
                /\ ~last.consulted
                /\ Returned = last.rule
                /\ Returned.threat_level = get_threat_level_from_score(Returned.threat_score)

\* The flag is off and the engine has just returned a rule-based
\* SUSPICIOUS Detection as it is.
C18_SuspiciousNotConsulted ==
    /\ ~config.AI_ANALYSIS_ENABLED
    /\ Analysed
    /\ last.rule.threat_level = SUSPICIOUS
    /\ Returned = last.rule
    /\ ai_enhanced_detections = <<>>

\* ------------------------------------------------------------------------
\* Properties of the engine built from an unchecked configuration
\* ------------------------------------------------------------------------

\* C19: an engine that was constructed has valid thresholds, and each of
\* its analyze_request calls returns a valid Detection: none fails because
\* of the configuration.
C19_ConstructedEngineAlwaysAnswers ==
    Analysed =>
       /\ Answered
       /\ last.rule.threat_score \in 0..100
       /\ last.rule.threat_level \in ThreatLevel

\* The engine was constructed with the speed threshold 0 and its 10th
\* analyze_request raised: the request is in the history, no Detection was
\* stored for it.
C19_TenthCallRaises ==
    /\ config.SUPERHUMAN_SPEED_THRESHOLD = 0
    /\ last = Raised("analyze_request", "ZeroDivisionError")
    /\ sent = MinSpeedRequests
    /\ Len(request_history) = MinSpeedRequests
    /\ Len(detections) = MinSpeedRequests - 1

\* ------------------------------------------------------------------------
\* Properties of the enhanced engine with a silent collaborator
\* ------------------------------------------------------------------------

\* C20: every analyze_request call of the enhanced engine returns: a call
\* that is waiting for the collaborator is eventually over, with a
\* Detection returned.
C20_EveryCallReturns == InGenerate ~> Analysed

\* The handler waits in client.generate for the answer about a SUSPICIOUS
\* rule-based Detection, which is stored already.
C20_WaitingForCollaborator ==
    /\ InGenerate
    /\ last.call = 1
    /\ collaborator.reply = Silent
    /\ last.rule.threat_level = SUSPICIOUS
    /\ Last(detections) = last.rule
    /\ ai_enhanced_detections = <<>>

\* ------------------------------------------------------------------------
\* Properties of the fused score
\* ------------------------------------------------------------------------

\* The sub-scores of a Detection as the contract states them, in hundredths
\* of a point, from the detector results kept in its details.
SpeedSubscore(d) ==
    LET r == d.details.speed_detection
    IN  IF r.detected THEN Min(4000, (r.requests_per_second * 30) \div r.threshold) ELSE 0
EnumSubscore(d) ==
    LET r == d.details.enumeration_detection
    IN  IF r.detected THEN Min(3500, r.sequence_length * 500) ELSE 0
AnomalySubscore(d) ==
    LET r == d.details.anomaly_detection
    IN  IF r.detected THEN Min(2500, (r.z_score * 20) \div r.threshold) ELSE 0
Subscores(d) == SpeedSubscore(d) + EnumSubscore(d) + AnomalySubscore(d)

\* C21: the rule-based threat_score is the sum of the three sub-scores,
\* truncated to an integer and clamped to 0..100; the speed sub-score is
\* min(40, rate / threshold * 30), the enumeration sub-score
\* min(35, length * 5), the anomaly sub-score min(25, z / threshold * 20),
\* each 0 for a detector that did not fire and within 0..40, 0..35, 0..25.
C21_ScoreIsTruncatedSum ==
    \A i \in DOMAIN detections :
       LET d == detections[i]
       IN  /\ d.threat_score = Max(0, Min(100, Subscores(d) \div 100))
           /\ SpeedSubscore(d) \in 0..4000
           /\ EnumSubscore(d) \in 0..3500
           /\ AnomalySubscore(d) \in 0..2500

\* Two detectors fired and the sum has a fraction of half a point or more
\* that the score drops.
C21_FractionDropped ==
    /\ Analysed
    /\ SpeedSubscore(Returned) \in 1..3999
    /\ EnumSubscore(Returned) > 0
    /\ Subscores(Returned) % 100 >= 50
    /\ Returned.threat_score * 100 < Subscores(Returned)

\* ------------------------------------------------------------------------
\* Properties of the speed window
\* ------------------------------------------------------------------------

\* The entries of the history stamped within [now - W, now].
InClosedWindow ==
    SelectSeq(request_history,
              LAMBDA r : /\ r.timestamp >= now - config.SPEED_WINDOW_SECONDS * TicksPerSecond
                         /\ r.timestamp <= now)

\* C22: the speed detector computes its rate over the entries stamped
\* within [now - W, now] only: entries older than now - W and entries
\* stamped after now are left out of the count and of the timespan, and
\* with fewer than 2 entries selected it reports not detected.
C22_RateOverClosedWindow ==
    (Analysed /\ Len(request_history) >= MinSpeedRequests) =>
       LET selected == InClosedWindow
           speed_detection == last.rule.details.speed_detection
       IN  IF Len(selected) < 2
           THEN ~speed_detection.detected /\ speed_detection.requests_per_second = 0
           ELSE \E up \in BOOLEAN :
                   speed_detection.requests_per_second =
                      RequestsPerSecond(Len(selected),
                          TimeSpan(Last(selected).timestamp - selected[1].timestamp), up)

\* A single entry is stamped within [now - W, now], the others after now,
\* and the speed detector fired on a rate taken over all of them.
C22_FutureEntriesCounted ==
    /\ Analysed
    /\ Len(request_history) >= MinSpeedRequests
    /\ Len(InClosedWindow) = 1
    /\ \E i \in DOMAIN request_history : request_history[i].timestamp > now
    /\ last.rule.details.speed_detection.detected
    /\ last.rule.pattern_type = SUPERHUMAN_SPEED

\* ------------------------------------------------------------------------
\* Properties of the rolling series and the z-scores
\* ------------------------------------------------------------------------

\* C25: every analyze_request call appends one sample to each of the three
\* rolling series, so the series of endpoint depths, of parameter counts
\* and of inter-arrival intervals have the same length, one sample for each
\* request since the last reset, and none holds more than 100 samples.
C25_SeriesEqualLength ==
    /\ Len(endpoint_depths) = Len(parameter_counts)
    /\ Len(request_intervals) = Len(endpoint_depths)
    /\ Len(endpoint_depths) <= SeriesCap
    /\ Len(endpoint_depths) = Min(Len(detections), SeriesCap)

\* The first request was analysed: a depth and a parameter count are kept
\* for it and no interval; the interval series stays one sample short.
C25_NoIntervalForFirstRequest ==
    /\ Analysed
    /\ Len(detections) = MaxRequests
    /\ Len(endpoint_depths) = MaxRequests
    /\ Len(parameter_counts) = MaxRequests
    /\ Len(request_intervals) = MaxRequests - 1

\* |value - mean| / max(std, 1) compared with the threshold for the newest
\* sample of a series: with dev and var as in ZDev and ZVar, std is below 1
\* (`unit` ticks for an interval) exactly when var < (n * unit)^2.
FlooredVar(series, unit) ==
    Max(ZVar(series, unit, FALSE), (Len(series) * unit) * (Len(series) * unit))
FlooredAbove(value, series, unit) ==
    ZDev(value, series, unit, FALSE) * ZDev(value, series, unit, FALSE)
       > config.ANOMALY_Z_SCORE_THRESHOLD * config.ANOMALY_Z_SCORE_THRESHOLD
            * FlooredVar(series, unit)
FlooredAtLeast(value, series, unit) ==
    ZDev(value, series, unit, FALSE) * ZDev(value, series, unit, FALSE)
       >= config.ANOMALY_Z_SCORE_THRESHOLD * config.ANOMALY_Z_SCORE_THRESHOLD
            * FlooredVar(series, unit)

\* The interval of the request just analysed.
LastInterval ==
    IF Len(request_history) > 1
    THEN Last(request_history).timestamp
            - request_history[Len(request_history) - 1].timestamp
    ELSE TicksPerSecond

\* C26: with 10 samples or more, the anomaly detector fires exactly when
\* the largest of the three z-scores |value - mean| / max(std, 1) exceeds
\* the threshold (a z-score equal to the threshold may fall on either side
\* in floating point).
C26_StdFlooredAtOne ==
    (Analysed /\ Len(endpoint_depths) >= MinAnomalySamples) =>
       LET detected == last.rule.details.anomaly_detection.detected
       IN  /\ (\/ FlooredAbove(Last(endpoint_depths), endpoint_depths, 1)
               \/ FlooredAbove(Last(parameter_counts), parameter_counts, 1)
               \/ FlooredAbove(LastInterval, request_intervals, TicksPerSecond))
                 => detected
           /\ detected =>
                 \/ FlooredAtLeast(Last(endpoint_depths), endpoint_depths, 1)
                 \/ FlooredAtLeast(Last(parameter_counts), parameter_counts, 1)
                 \/ FlooredAtLeast(LastInterval, request_intervals, TicksPerSecond)

\* The anomaly detector fired on a z-score of 3 or more although no feature
\* is as far as the threshold from its mean in units of max(std, 1).
C26_FiredBelowFlooredThreshold ==
    /\ Analysed
    /\ Len(endpoint_depths) >= MinAnomalySamples
    /\ last.rule.details.anomaly_detection.detected
    /\ last.rule.details.anomaly_detection.z_score >= 300
    /\ ~FlooredAtLeast(Last(endpoint_depths), endpoint_depths, 1)
    /\ ~FlooredAtLeast(Last(parameter_counts), parameter_counts, 1)
    /\ ~FlooredAtLeast(LastInterval, request_intervals, TicksPerSecond)

\* ------------------------------------------------------------------------
\* Properties of the levels the rules can reach
\* ------------------------------------------------------------------------

\* C28: a rule-based detection is MALICIOUS only if the speed detector
\* fired (without it the score is at most 35 + 25 = 60), every rule-based
\* MALICIOUS detection has pattern SUPERHUMAN_SPEED, and every detection
\* with pattern SUPERHUMAN_SPEED has a score of 30 or more and is never
\* NORMAL.
C28_MaliciousNeedsSpeed ==
    \A i \in DOMAIN detections :
       LET d == detections[i]
           speed == d.details.speed_detection.detected
       IN  /\ d.threat_level = MALICIOUS =>
                 speed /\ d.pattern_type = SUPERHUMAN_SPEED
           /\ ~speed => d.threat_score <= 60
           /\ d.pattern_type = SUPERHUMAN_SPEED =>
                 d.threat_score >= 30 /\ d.threat_level # NORMAL

\* A run that reached 60 points without the speed detector and stayed
\* SUSPICIOUS, and one that the speed detector made MALICIOUS.
C28_SixtyWithoutSpeed ==
    /\ Analysed
    /\ ~Returned.details.speed_detection.detected
    /\ Returned.threat_score = 60
    /\ Returned.threat_level = SUSPICIOUS
C28_MaliciousBySpeed ==
    /\ Analysed
    /\ Returned.threat_level = MALICIOUS
    /\ Returned.details.speed_detection.detected
    /\ Returned.details.enumeration_detection.detected

\* ------------------------------------------------------------------------
\* Properties of the enumeration detector
\* ------------------------------------------------------------------------

\* The endpoints the enumeration detector inspected for the request just
\* analysed: those of the last 20 entries of the history.
Inspected ==
    LET first == Max(1, Len(request_history) - EnumerationWindow + 1)
    IN  [i \in 1..(Len(request_history) - first + 1) |->
            request_history[first + i - 1].request.endpoint]

\* The groups among them: base paths in front of a trailing number, names
\* of a parameter with a numeric value; the integer values of a group.
PathGroups == {BasePath(Inspected[i]) : i \in {j \in DOMAIN Inspected : PathMatches(Inspected[j])}}
ParamGroups == {Inspected[i].query[1].name : i \in {j \in DOMAIN Inspected : ParamMatches(Inspected[j])}}
InPathGroup(base) ==
    {i \in DOMAIN Inspected : PathMatches(Inspected[i]) /\ BasePath(Inspected[i]) = base}
InParamGroup(name) ==
    {i \in DOMAIN Inspected : ParamMatches(Inspected[i]) /\ Inspected[i].query[1].name = name}
PathValues(base) == {Last(Inspected[i].segs).digits : i \in InPathGroup(base)}
ParamValues(name) == {Inspected[i].query[1].value.digits : i \in InParamGroup(name)}

\* The differences of neighbours among the sorted unique values.
Steps(values) ==
    {y - x : <<x, y>> \in {p \in values \X values :
                              p[1] < p[2] /\ ~\E z \in values : p[1] < z /\ z < p[2]}}
Sequential(values) ==
    /\ Cardinality(values) >= config.ENUMERATION_SEQUENCE_LENGTH
    /\ Cardinality(Steps(values)) <= 2

\* C23: enumeration is reported exactly when one base path or one parameter
\* name among the inspected endpoints has at least
\* ENUMERATION_SEQUENCE_LENGTH unique integer values whose sorted
\* neighbours differ by at most 2 distinct amounts; duplicates and the
\* order of arrival play no part, and fewer unique values are never
\* reported.
C23_SequentialTest ==
    Analysed =>
       LET detected == last.rule.details.enumeration_detection.detected
       IN  /\ detected <=>
                 \/ \E base \in PathGroups : Sequential(PathValues(base))
                 \/ \E name \in ParamGroups : Sequential(ParamValues(name))
           /\ detected =>
                 \/ \E base \in PathGroups :
                       Cardinality(PathValues(base)) >= config.ENUMERATION_SEQUENCE_LENGTH
                 \/ \E name \in ParamGroups :
                       Cardinality(ParamValues(name)) >= config.ENUMERATION_SEQUENCE_LENGTH

\* An enumeration with two step widths, arrived out of order, is reported.
C23_TwoStepsOutOfOrder ==
    /\ Analysed
    /\ last.rule.details.enumeration_detection.detected
    /\ \E base \in PathGroups :
          /\ Cardinality(Steps(PathValues(base))) = 2
          /\ \E i, j \in InPathGroup(base) :
                i < j /\ Last(Inspected[i].segs).digits > Last(Inspected[j].segs).digits

\* Five requests of one group and more, fewer than five unique values:
\* not reported.
C23_DuplicatesDoNotCount ==
    /\ Analysed
    /\ ~last.rule.details.enumeration_detection.detected
    /\ \E base \in PathGroups :
          /\ Cardinality(InPathGroup(base)) >= config.ENUMERATION_SEQUENCE_LENGTH
          /\ Cardinality(PathValues(base)) < config.ENUMERATION_SEQUENCE_LENGTH

\* Five unique values and more with three step widths: not reported.
C23_ThreeStepsRejected ==
    /\ Analysed
    /\ ~last.rule.details.enumeration_detection.detected
    /\ \E base \in PathGroups :
          /\ Cardinality(PathValues(base)) >= config.ENUMERATION_SEQUENCE_LENGTH
          /\ Cardinality(Steps(PathValues(base))) = 3

\* The groups that pass the sequential test, and the group among them that
\* appeared first among the inspected endpoints.
QualifyingPaths == {base \in PathGroups : Sequential(PathValues(base))}
QualifyingParams == {name \in ParamGroups : Sequential(ParamValues(name))}
FirstPath ==
    CHOOSE base \in QualifyingPaths :
       \A other \in QualifyingPaths : SetMin(InPathGroup(base)) <= SetMin(InPathGroup(other))
FirstParam ==
    CHOOSE name \in QualifyingParams :
       \A other \in QualifyingParams : SetMin(InParamGroup(name)) <= SetMin(InParamGroup(other))

\* C24: when a base path qualifies, the result reports the path matcher's
\* pattern and sequence length, whether or not a parameter qualifies too;
\* the parameter matcher's result is reported only when no base path
\* qualifies; within a matcher the qualifying group that appeared first
\* is the one reported, with the number of its endpoints as length.
C24_PathMatcherFirst ==
    Analysed =>
       LET e == last.rule.details.enumeration_detection
       IN  IF QualifyingPaths # {}
           THEN /\ e.detected
                /\ e.pattern = [matcher |-> "path", key |-> FirstPath]
                /\ e.sequence_length = Cardinality(InPathGroup(FirstPath))
           ELSE IF QualifyingParams # {}
           THEN /\ e.detected
                /\ e.pattern = [matcher |-> "param", key |-> <<Lit(FirstParam)>>]
                /\ e.sequence_length = Cardinality(InParamGroup(FirstParam))
           ELSE ~e.detected /\ e.pattern = NoPattern

\* A parameter and a base path both qualify, the parameter appeared first
\* and the path is reported.
C24_BothQualifyPathReported ==
    /\ Analysed
    /\ QualifyingPaths # {}
    /\ QualifyingParams # {}
    /\ SetMin(InParamGroup(FirstParam)) < SetMin(InPathGroup(FirstPath))
    /\ last.rule.details.enumeration_detection.pattern.matcher = "path"

\* Two groups of one matcher qualify; one group that appeared first does
\* not qualify and a later one does.
C24_TwoPathsQualify == Analysed /\ Cardinality(QualifyingPaths) = 2
C24_TwoParamsQualify == Analysed /\ Cardinality(QualifyingParams) = 2
C24_LaterGroupReported ==
    /\ Analysed
    /\ QualifyingPaths # {}
    /\ \E base \in PathGroups \ QualifyingPaths :
          SetMin(InPathGroup(base)) < SetMin(InPathGroup(FirstPath))

\* The positions in the history of the last 20 requests, and the endpoint
\* of a position.
LastTwenty == {i \in DOMAIN request_history : i > Len(request_history) - EnumerationWindow}
EndpointAt(i) == request_history[i].request.endpoint
SameGroup(e, f) ==
    \/ PathMatches(e) /\ PathMatches(f) /\ BasePath(e) = BasePath(f)
    \/ ParamMatches(e) /\ ParamMatches(f) /\ e.query[1].name = f.query[1].name
ValueOf(e) == IF PathMatches(e) THEN Last(e.segs).digits ELSE e.query[1].value.digits
\* The unique values of the group of position i among the positions.
GroupValues(i, positions) ==
    {ValueOf(EndpointAt(j)) : j \in {k \in positions : SameGroup(EndpointAt(i), EndpointAt(k))}}

\* C27: the enumeration detector counts only the endpoints of the last 20
\* requests: it reports enumeration only if one group has
\* ENUMERATION_SEQUENCE_LENGTH unique values among them, whatever older
\* requests hold, and it reports none when none of the last 20 requests
\* matches, as after a detected run followed by 20 other requests.
C27_OnlyLastTwentyCount ==
    Analysed =>
       LET detected == last.rule.details.enumeration_detection.detected
       IN  /\ detected =>
                 \E i \in LastTwenty :
                    Cardinality(GroupValues(i, LastTwenty)) >= config.ENUMERATION_SEQUENCE_LENGTH
           /\ (\A i \in LastTwenty :
                  ~PathMatches(EndpointAt(i)) /\ ~ParamMatches(EndpointAt(i)))
                 => ~detected

\* A run that was reported lies behind the last 20 requests, none of which
\* matches, and enumeration is no longer reported.
C27_OldRunForgotten ==
    /\ Analysed
    /\ Len(request_history) > EnumerationWindow
    /\ \E d \in DOMAIN detections : detections[d].details.enumeration_detection.detected
    /\ \E i \in DOMAIN request_history \ LastTwenty :
          Cardinality(GroupValues(i, DOMAIN request_history))
             >= config.ENUMERATION_SEQUENCE_LENGTH
    /\ \A i \in LastTwenty : ~PathMatches(EndpointAt(i)) /\ ~ParamMatches(EndpointAt(i))
    /\ ~last.rule.details.enumeration_detection.detected

\* ------------------------------------------------------------------------
\* Properties of the enhanced engine's records
\* ------------------------------------------------------------------------

\* C29: a rule-based Detection with pattern BEHAVIORAL_ANOMALY has a score
\* from 20 to 25 and level NORMAL, and the enhanced engine returns it as it
\* is without consulting the collaborator: no Detection kept with an AI
\* analysis has that pattern.
C29_AnomalyAloneIsNormal ==
    /\ (Analysed /\ last.rule.pattern_type = BEHAVIORAL_ANOMALY) =>
          /\ last.rule.threat_score \in 20..25
          /\ last.rule.threat_level = NORMAL
          /\ ~last.consulted
          /\ Returned = last.rule
    /\ \A i \in DOMAIN detections :
          detections[i].pattern_type = BEHAVIORAL_ANOMALY =>
             detections[i].threat_score \in 20..25 /\ detections[i].threat_level = NORMAL
    /\ \A i \in DOMAIN ai_enhanced_detections :
          ai_enhanced_detections[i].detection.pattern_type # BEHAVIORAL_ANOMALY

\* An anomaly below the cap on an engine whose collaborator answers: 22
\* points, returned as it is.
C29_AnomalyBelowCap ==
    /\ Analysed
    /\ enable_ai
    /\ collaborator.available
    /\ ~collaborator.raises
    /\ last.rule.pattern_type = BEHAVIORAL_ANOMALY
    /\ last.rule.threat_score \in 20..24
    /\ Returned = last.rule
    /\ \E i \in DOMAIN detections :
          detections[i].pattern_type = BEHAVIORAL_ANOMALY /\ detections[i].threat_score = 25

\* C30 as stated: the Detection returned is the last entry of the detection
\* list and the Detection of the record kept with its AI analysis, and
\* after a rescore get_recent_detections and get_ai_enhanced_detection both
\* show the adjusted threat_score and threat_level.
C30_LookupShowsAdjustedScore ==
    Enhanced =>
       LET shown == get_ai_enhanced_detection(Returned)
       IN  /\ Last(ai_enhanced_detections).detection = Returned
           /\ get_recent_detections(1) = <<Returned>>
           /\ "threat_score" \in DOMAIN shown
           /\ "threat_level" \in DOMAIN shown
           /\ shown.threat_score = Returned.threat_score
           /\ shown.threat_level = Returned.threat_level

\* C30, amended: the Detection returned is the last entry of the detection
\* list and the Detection of the record kept with its AI analysis, so after
\* a rescore get_recent_detections and that record show the adjusted
\* threat_score and threat_level; get_ai_enhanced_detection returns the AI
\* analysis of the record, which holds neither; the score is the rule-based
\* one adjusted at most once.
C30_OneRecordAdjustedOnce ==
    Analysed =>
       /\ get_recent_detections(1) = <<Returned>>
       /\ Returned.threat_score \in
             { last.rule.threat_score,
               Min(100, last.rule.threat_score + 5),
               Max(0, last.rule.threat_score - 10) }
       /\ Enhanced =>
             LET kept == Last(ai_enhanced_detections)
                 shown == get_ai_enhanced_detection(Returned)
             IN  /\ kept.detection = Returned
                 /\ kept.detection.threat_score = get_recent_detections(1)[1].threat_score
                 /\ kept.detection.threat_level = get_recent_detections(1)[1].threat_level
                 /\ shown = kept.ai_analysis
                 /\ "threat_score" \notin DOMAIN shown
                 /\ "threat_level" \notin DOMAIN shown
       /\ ~Enhanced => Returned = last.rule

\* A rescore changed score and level; the detection list and the record
\* kept show the adjusted values and the lookup returns the analysis.
C30_RescoredEverywhere ==
    /\ Enhanced
    /\ Returned.threat_score # last.rule.threat_score
    /\ Returned.threat_level # last.rule.threat_level
    /\ Last(ai_enhanced_detections).detection.threat_score = Returned.threat_score
    /\ Last(ai_enhanced_detections).detection.threat_level = Returned.threat_level
    /\ get_recent_detections(1)[1].threat_level = Returned.threat_level
    /\ get_ai_enhanced_detection(Returned) = Kept.ai_analysis


====
